---- MODULE Spec2Model ----
(***************************************************************************)
(* A model of the AlephBFT consensus core: the unit Creator                *)
(* (consensus/src/creation/creator.rs), the fork Alert Handler             *)
(* (consensus/src/alerts/handler.rs) and the Runway, the mediator between  *)
(* network, unit store, alerter and consensus (consensus/src/runway/mod.rs)*)
(***************************************************************************)
EXTENDS Integers, Sequences, FiniteSets, TLC

(***************************************************************************)
(* Bounds of the model.                                                    *)
(***************************************************************************)
\* number of committee members of the Creator (n_members)
NMembers == 4
\* highest round of a unit handed to Creator::add_unit
MaxRound == 0
\* number of further, conflicting units that exist per coord (forks)
NForkVariants == 1
\* the index of the node that runs the Creator
OwnIndex == 0
\* number of Creator::add_unit calls in a run
MaxAdds == 5
\* number of nodes that send alerts over the network: the nodes 1 .. NAccusers
NAccusers == 1
\* number of nodes that fork: the NForkers highest node indices
NForkers == 2
\* number of distinct alerts the Alert Handler stores in a run
MaxAlerts == 2
\* number of events the loop of the Runway handles in a run
MaxEvents == 3
\* the session of the Alert Handler (AlertConfig::session_id)
SessionId == 0

NodeIndex == 0 .. (NMembers - 1)
Rounds == 0 .. MaxRound
\* rounds create_unit is asked for: up to a round whose predecessor has no collector
CreateRounds == 0 .. (MaxRound + 2)

\* Option::None of a NodeMap slot; hashes are positive
NoHash == 0

(***************************************************************************)
(* Units as the Creator sees them: creator(), round() and hash().          *)
(***************************************************************************)
\* the hash of the unit of a given creator, round and variant (collision free)
HashOf(creator, round, variant) ==
    1 + creator + NMembers * (round + (MaxRound + 1) * variant)

Units ==
    { [creator |-> c, round |-> r, hash |-> HashOf(c, r, v)] :
        c \in NodeIndex, r \in Rounds, v \in 0 .. NForkVariants }

\* units of the round above MaxRound, one per creator; their hashes lie above
\* the hashes of Units
LaterUnits ==
    { [creator |-> c, round |-> MaxRound + 1, hash |-> HashOf(c, 0, NForkVariants + 1)] :
        c \in NodeIndex }

\* units of round 0: one per creator and a fork of the unit of this node
EarlierUnits ==
    { u \in Units : u.round = 0 /\ u.hash \in { HashOf(c, 0, 0) : c \in NodeIndex }
                                              \cup { HashOf(OwnIndex, 0, 1) } }

VARIABLES
    round_collectors,   \* Creator.round_collectors: sequence, index round + 1
    node_id,            \* Creator.node_id
    n_members,          \* Creator.n_members
    cret,               \* the result of the last Creator call
    first_added,        \* history: hash of the first unit added per (round, creator)
    n_added             \* history: number of add_unit calls so far

creator_vars == <<round_collectors, node_id, n_members, cret, first_added, n_added>>

VARIABLES
    session_id,         \* Handler.session_id
    keychain,           \* Handler.keychain: the index of the node it signs for
    known_forkers,      \* Handler.known_forkers: NodeIndex -> ForkProof
    known_alerts,       \* Handler.known_alerts: alert hash -> signed alert
    known_rmcs,         \* Handler.known_rmcs: <<sender, forker>> -> alert hash
    hret,               \* the call of the Handler in progress and its result
    own_alerted         \* history: the hashes of the alerts given to on_own_alert

handler_vars ==
    <<session_id, keychain, known_forkers, known_alerts, known_rmcs, hret, own_alerted>>

VARIABLES
    store,              \* Runway.store: the UnitStore
    missing_coords,     \* Runway.missing_coords
    missing_parents,    \* Runway.missing_parents
    exiting,            \* Runway.exiting
    pc,                 \* where Runway::run is: "select", "terminate" or "ended"
    closed,             \* the outgoing channels whose receiver is gone
    saved,              \* the units the unit saver has written to the backup
    backup_pending,     \* the oneshot channel units_from_backup has not fired yet
    sent,               \* what the current iteration of Runway::run sent and did
    revent,             \* history: the event of the current iteration, whose units it carried
    n_events            \* history: number of events so far

runway_vars ==
    <<store, missing_coords, missing_parents, exiting, pc, closed, saved,
      backup_pending, sent, revent, n_events>>

VARIABLES
    notifications_from_alerter, \* the channel of ForkingNotifications to the Runway
    alerts_for_alerter          \* the channel of own Alerts to the alerter

service_vars == <<notifications_from_alerter, alerts_for_alerter>>

(***************************************************************************)
(* NodeMap                                                                 *)
(***************************************************************************)
\* NodeMap::with_size(n): n empty slots
NodeMapWithSize(n) == [i \in 0 .. (n - 1) |-> NoHash]

\* NodeMap::size()
NodeMapSize(m) == Cardinality(DOMAIN m)

\* the occupied slots of a NodeMap
Occupied(m) == { i \in DOMAIN m : m[i] # NoHash }

RECURSIVE ValuesFrom(_, _)
ValuesFrom(m, i) ==
    IF i \notin DOMAIN m THEN <<>>
    ELSE IF m[i] = NoHash THEN ValuesFrom(m, i + 1)
    ELSE <<m[i]>> \o ValuesFrom(m, i + 1)

\* NodeMap::into_values(): the values of the occupied slots, by ascending index
IntoValues(m) == ValuesFrom(m, 0)

\* ControlHash::new(&parents): the presence bitmap and the combined parent hashes
ControlHashNew(parents) ==
    [parents_mask |-> Occupied(parents), combined_hash |-> IntoValues(parents)]

(***************************************************************************)
(* UnitsCollector                                                          *)
(***************************************************************************)
UnitsCollectorNew(n) == [candidates |-> NodeMapWithSize(n), n_candidates |-> 0]

\* a collector that overwrites an occupied slot (last seen wins)
CollectorAddUnitOverwrite(coll, unit) ==
    [candidates |-> [coll.candidates EXCEPT ![unit.creator] = unit.hash],
     n_candidates |-> coll.n_candidates + 1]

\* UnitsCollector::add_unit
CollectorAddUnit(coll, unit) ==
    IF coll.candidates[unit.creator] = NoHash
    THEN [candidates |-> [coll.candidates EXCEPT ![unit.creator] = unit.hash],
          n_candidates |-> coll.n_candidates + 1]
    ELSE coll

\* the threshold floor(2N/3) + 1 computed from the size of the candidates map
Threshold(coll) == (NodeMapSize(coll.candidates) * 2) \div 3 + 1

\* prospective_parents that forgets the check of the own slot
ProspectiveParentsNoOwnCheck(coll, id) ==
    IF coll.n_candidates < Threshold(coll)
    THEN [ok |-> FALSE, err |-> "NotEnoughParents", parents |-> <<>>]
    ELSE [ok |-> TRUE, err |-> "None", parents |-> coll.candidates]

\* prospective_parents that checks the own slot before the threshold
ProspectiveParentsOwnFirst(coll, id) ==
    IF coll.candidates[id] = NoHash
    THEN [ok |-> FALSE, err |-> "MissingOwnParent", parents |-> <<>>]
    ELSE IF coll.n_candidates < Threshold(coll)
    THEN [ok |-> FALSE, err |-> "NotEnoughParents", parents |-> <<>>]
    ELSE [ok |-> TRUE, err |-> "None", parents |-> coll.candidates]

\* UnitsCollector::prospective_parents
ProspectiveParents(coll, id) ==
    IF coll.n_candidates < Threshold(coll)
    THEN [ok |-> FALSE, err |-> "NotEnoughParents", parents |-> <<>>]
    ELSE IF coll.candidates[id] = NoHash
    THEN [ok |-> FALSE, err |-> "MissingOwnParent", parents |-> <<>>]
    ELSE [ok |-> TRUE, err |-> "None", parents |-> coll.candidates]

(***************************************************************************)
(* Creator                                                                 *)
(***************************************************************************)
\* PreUnit::new
PreUnitNew(id, round, control_hash) ==
    [creator |-> id, round |-> round, control_hash |-> control_hash]

\* the free function create_unit, returning only the first T parent hashes
create_unit_truncated(id, parents, round) ==
    [preunit |-> PreUnitNew(id, round, ControlHashNew(parents)),
     parent_hashes |->
         LET all == IntoValues(parents)
             t == (NMembers * 2) \div 3 + 1
         IN  [k \in 1 .. (IF Len(all) < t THEN Len(all) ELSE t) |-> all[k]]]

\* the free function create_unit: the PreUnit and the parent hashes
create_unit(id, parents, round) ==
    [preunit |-> PreUnitNew(id, round, ControlHashNew(parents)),
     parent_hashes |-> IntoValues(parents)]

\* Creator::current_round
current_round == Len(round_collectors) - 1

\* get_or_initialize_collector_for_round that resizes the vector for every round
CollectorsResizedTo(colls, round) ==
    IF round > Len(colls) - 1
    THEN colls \o [i \in 1 .. (round + 1 - Len(colls)) |-> UnitsCollectorNew(n_members)]
    ELSE SubSeq(colls, 1, round + 1)

\* Creator::get_or_initialize_collector_for_round: the resized vector
CollectorsForRound(colls, round) ==
    IF round > Len(colls) - 1
    THEN colls \o [i \in 1 .. (round + 1 - Len(colls)) |-> UnitsCollectorNew(n_members)]
    ELSE colls

NoPreUnit == [preunit |-> PreUnitNew(0, 0, ControlHashNew(<<>>)), parent_hashes |-> <<>>]

NoCall ==
    [op |-> "none", round |-> 0, ok |-> FALSE, err |-> "None", out |-> NoPreUnit,
     second |-> FALSE]

\* Creator::create_unit as a function of the state: the result for a round
CreateUnitResult(round) ==
    IF round = 0
    THEN [NoCall EXCEPT !.op = "create_unit", !.round = round, !.ok = TRUE,
              !.out = create_unit(node_id, NodeMapWithSize(n_members), round)]
    ELSE IF round > Len(round_collectors)
    THEN [NoCall EXCEPT !.op = "create_unit", !.round = round,
              !.err = "NotEnoughParents"]
    ELSE LET res == ProspectiveParents(round_collectors[round], node_id) IN
         IF res.ok
         THEN [NoCall EXCEPT !.op = "create_unit", !.round = round, !.ok = TRUE,
                   !.out = create_unit(node_id, res.parents, round)]
         ELSE [NoCall EXCEPT !.op = "create_unit", !.round = round,
                   !.err = res.err]

\* the caller takes the returned value; the Creator is ready for the next call
CreatorReturn ==
    /\ cret # NoCall
    /\ cret' = NoCall
    /\ UNCHANGED <<round_collectors, node_id, n_members, first_added, n_added>>
    /\ UNCHANGED <<handler_vars, runway_vars, service_vars>>

\* Creator::new
CreatorInit ==
    /\ n_members = NMembers
    /\ node_id = OwnIndex
    /\ round_collectors = <<UnitsCollectorNew(NMembers)>>
    /\ cret = NoCall
    /\ first_added = [r \in 0 .. (MaxRound + 1) |-> [c \in NodeIndex |-> NoHash]]
    /\ n_added = 0

\* Creator::create_unit(round): reads the collectors, changes nothing
CreateUnit ==
    \E round \in CreateRounds :
        /\ cret = NoCall
        /\ cret' = CreateUnitResult(round)
        /\ UNCHANGED <<round_collectors, node_id, n_members, first_added, n_added>>
        /\ UNCHANGED <<handler_vars, runway_vars, service_vars>>

\* Creator::add_unit(unit)
AddUnitOf(unit) ==
    /\ cret = NoCall
    /\ n_added < MaxAdds
    /\ n_added' = n_added + 1
    /\ LET colls == CollectorsForRound(round_collectors, unit.round) IN
       round_collectors' =
           [colls EXCEPT ![unit.round + 1] = CollectorAddUnit(@, unit)]
    /\ first_added' =
           IF first_added[unit.round][unit.creator] = NoHash
           THEN [first_added EXCEPT ![unit.round][unit.creator] = unit.hash]
           ELSE first_added
    /\ cret' = [NoCall EXCEPT !.op = "add_unit",
            !.second = first_added[unit.round][unit.creator] \notin {NoHash, unit.hash}]
    /\ UNCHANGED <<node_id, n_members>>
    /\ UNCHANGED <<handler_vars, runway_vars, service_vars>>

\* add_unit of a unit of a round up to MaxRound
AddUnit == \E unit \in Units : AddUnitOf(unit)

\* add_unit of a unit of the round above MaxRound
AddLaterUnit == \E unit \in LaterUnits : AddUnitOf(unit)

\* add_unit of a unit of round 0
AddEarlierUnit == \E unit \in EarlierUnits : AddUnitOf(unit)

(***************************************************************************)
(* Signed units and alerts as the Alert Handler sees them                  *)
(***************************************************************************)
Accusers == 1 .. NAccusers
Forkers == (NMembers - NForkers) .. (NMembers - 1)

\* a node other than n, used for a signature by the wrong key or a wrong creator
OtherNode(n) == (n + 1) % NMembers

\* an UncheckedSigned<FullUnit>: the full unit and the key that signed it
SignedUnit(c, r, v) ==
    [creator |-> c, round |-> r, variant |-> v, session |-> SessionId, signer |-> c]

\* UncheckedSigned::check for a unit: the signature is by the unit's creator
CheckUnit(u) == u.signer = u.creator

\* Signed::as_signable for a unit: the FullUnit without its signature
FullUnitOf(u) ==
    [creator |-> u.creator, round |-> u.round, variant |-> u.variant,
     session |-> u.session]

\* UncheckedSigned::check for an alert: the signature is by the alert's sender
CheckAlert(sa) == sa.signer = sa.alert.sender

\* Signed::sign(alert, keychain)
SignAlert(alert, key) == [alert |-> alert, signer |-> key]

\* Alert::forker(): the creator of the first unit of the proof
AlertForker(alert) == alert.proof[1].creator

\* Signable::hash of an alert: a collision free digest of its content
AlertHash(alert) == <<alert.sender, alert.proof, alert.legit_units>>

\* Alert::new
AlertNew(sender, proof, legit_units) ==
    [sender |-> sender, proof |-> proof, legit_units |-> legit_units]

\* fork proofs that pass verify_fork: two units of f of round 0, in both orders
ValidProofs(f) ==
    { <<SignedUnit(f, 0, 0), SignedUnit(f, 0, 1)>>,
      <<SignedUnit(f, 0, 1), SignedUnit(f, 0, 0)>> }

\* fork proofs that fail verify_fork, one per check
BadProofs(f) ==
    { <<[SignedUnit(f, 0, 0) EXCEPT !.signer = OtherNode(f)], SignedUnit(f, 0, 1)>>,
      <<SignedUnit(f, 0, 0), [SignedUnit(f, 0, 1) EXCEPT !.session = SessionId + 1]>>,
      <<SignedUnit(f, 0, 0), SignedUnit(f, 0, 0)>>,
      <<SignedUnit(f, 0, 0), SignedUnit(OtherNode(f), 0, 0)>>,
      <<SignedUnit(f, 0, 0), SignedUnit(f, 1, 0)>> }

\* commitments that pass verify_commitment for forker f
GoodCommitments(f) == { <<>>, <<SignedUnit(f, 0, 0), SignedUnit(f, 1, 0)>> }

\* commitments that fail verify_commitment for forker f, one per check
BadCommitments(f) ==
    { <<SignedUnit(f, 0, 0), SignedUnit(f, 0, 1)>>,
      <<SignedUnit(OtherNode(f), 0, 0)>>,
      <<[SignedUnit(f, 0, 0) EXCEPT !.signer = OtherNode(f)]>> }

\* the first valid proof of f, carried by the alerts with a non-empty commitment
FirstProof(f) == <<SignedUnit(f, 0, 0), SignedUnit(f, 0, 1)>>

\* the forker whose alerts carry every kind of commitment
TopForker == NMembers - 1

\* alerts of sender a whose proof is a fork and whose commitment is among cs(f)
AlertsOf(a, f, cs) ==
    { AlertNew(a, q, <<>>) : q \in ValidProofs(f) }
    \cup { AlertNew(a, FirstProof(f), l) : l \in cs }

\* alerts from the network whose proof is a fork
ValidAlerts ==
    UNION { UNION { AlertsOf(a, f,
                             IF f = TopForker
                             THEN GoodCommitments(f) \cup BadCommitments(f)
                             ELSE {}) :
                    f \in Forkers } :
            a \in Accusers }

\* alerts from the network whose proof is no fork
InvalidAlerts ==
    { AlertNew(a, q, <<>>) : a \in Accusers, q \in BadProofs(TopForker) }

\* the alerts that arrive from the network: signed by the sender or by another key
NetworkAlerts ==
    { SignAlert(a, a.sender) : a \in ValidAlerts \cup InvalidAlerts }
    \cup { SignAlert(a, OtherNode(a.sender)) :
             a \in { b \in ValidAlerts : b.proof = FirstProof(TopForker) } }

\* the alerts the Runway forms itself: own sender, a real fork, a sound commitment
OwnAlerts ==
    UNION { AlertsOf(OwnIndex, f, IF f = TopForker THEN GoodCommitments(f) ELSE {}) :
            f \in Forkers }

\* hashes of an alert no call ever stores, and of one that may be stored
ProbeHashes ==
    { AlertHash(AlertNew(1, <<SignedUnit(TopForker, 0, 0), SignedUnit(TopForker, 0, 0)>>,
                         <<>>)),
      AlertHash(AlertNew(1, FirstProof(TopForker), <<>>)) }

(***************************************************************************)
(* Handler                                                                 *)
(***************************************************************************)
\* HashMap::new
EmptyMap == [k \in {} |-> 0]

\* HashMap::insert
MapInsert(m, k, v) == [x \in DOMAIN m \cup {k} |-> IF x = k THEN v ELSE m[x]]

\* no call in progress; prev records the hash an alert_confirmed call found pinned
NoHCall ==
    [op |-> "none", arg |-> <<>>, ok |-> FALSE, err |-> <<>>, out |-> <<>>,
     prev |-> <<>>]

\* a call that returned Ok(out), or a plain value
HOk(op, arg, out) == [NoHCall EXCEPT !.op = op, !.arg = arg, !.ok = TRUE, !.out = out]

\* a call that returned Err(err)
HErr(op, arg, err) == [NoHCall EXCEPT !.op = op, !.arg = arg, !.err = err]

\* is_forker that never finds the forker
is_forker_never(forkers, forker) == FALSE

\* Handler::is_forker
is_forker(forkers, forker) == forker \in DOMAIN forkers

RECURSIVE VerifyCommitmentFrom(_, _, _)
VerifyCommitmentFrom(alert, i, rounds) ==
    IF i > Len(alert.legit_units) THEN [ok |-> TRUE, err |-> <<>>]
    ELSE LET u == alert.legit_units[i] IN
         IF ~CheckUnit(u)
         THEN [ok |-> FALSE, err |-> <<"IncorrectlySignedUnit", alert.sender>>]
         ELSE IF u.creator # AlertForker(alert)
         THEN [ok |-> FALSE, err |-> <<"WrongCreator", alert.sender>>]
         ELSE IF u.round \in rounds
         THEN [ok |-> FALSE, err |-> <<"SameRound", u.round, alert.sender>>]
         ELSE VerifyCommitmentFrom(alert, i + 1, rounds \cup {u.round})

\* verify_commitment that returns from the loop after the first unit
verify_commitment_first_unit_only(alert) ==
    IF alert.legit_units = <<>> THEN [ok |-> TRUE, err |-> <<>>]
    ELSE VerifyCommitmentFrom([alert EXCEPT !.legit_units = <<alert.legit_units[1]>>],
                              1, {})

\* Handler::verify_commitment
verify_commitment(alert) == VerifyCommitmentFrom(alert, 1, {})

\* verify_fork without the check that the two units differ
verify_fork_accepts_single_unit(alert) ==
    LET u1 == alert.proof[1]
        u2 == alert.proof[2]
    IN  IF ~(CheckUnit(u1) /\ CheckUnit(u2))
        THEN [ok |-> FALSE, forker |-> 0, err |-> <<"IncorrectlySignedUnit", alert.sender>>]
        ELSE IF u1.session # session_id \/ u2.session # session_id
        THEN [ok |-> FALSE, forker |-> 0, err |-> <<"WrongSession", alert.sender>>]
        ELSE IF u1.creator # u2.creator
        THEN [ok |-> FALSE, forker |-> 0, err |-> <<"WrongCreator", alert.sender>>]
        ELSE IF u1.round # u2.round
        THEN [ok |-> FALSE, forker |-> 0, err |-> <<"DifferentRounds", alert.sender>>]
        ELSE [ok |-> TRUE, forker |-> u1.creator, err |-> <<>>]

\* verify_fork that compares the rounds before the creators
verify_fork_rounds_first(alert) ==
    LET u1 == alert.proof[1]
        u2 == alert.proof[2]
    IN  IF ~(CheckUnit(u1) /\ CheckUnit(u2))
        THEN [ok |-> FALSE, forker |-> 0, err |-> <<"IncorrectlySignedUnit", alert.sender>>]
        ELSE IF u1.session # session_id \/ u2.session # session_id
        THEN [ok |-> FALSE, forker |-> 0, err |-> <<"WrongSession", alert.sender>>]
        ELSE IF FullUnitOf(u1) = FullUnitOf(u2)
        THEN [ok |-> FALSE, forker |-> 0, err |-> <<"SingleUnit", alert.sender>>]
        ELSE IF u1.round # u2.round
        THEN [ok |-> FALSE, forker |-> 0, err |-> <<"DifferentRounds", alert.sender>>]
        ELSE IF u1.creator # u2.creator
        THEN [ok |-> FALSE, forker |-> 0, err |-> <<"WrongCreator", alert.sender>>]
        ELSE [ok |-> TRUE, forker |-> u1.creator, err |-> <<>>]

\* Handler::verify_fork
verify_fork(alert) ==
    LET u1 == alert.proof[1]
        u2 == alert.proof[2]
    IN  IF ~(CheckUnit(u1) /\ CheckUnit(u2))
        THEN [ok |-> FALSE, forker |-> 0, err |-> <<"IncorrectlySignedUnit", alert.sender>>]
        ELSE IF u1.session # session_id \/ u2.session # session_id
        THEN [ok |-> FALSE, forker |-> 0, err |-> <<"WrongSession", alert.sender>>]
        ELSE IF FullUnitOf(u1) = FullUnitOf(u2)
        THEN [ok |-> FALSE, forker |-> 0, err |-> <<"SingleUnit", alert.sender>>]
        ELSE IF u1.creator # u2.creator
        THEN [ok |-> FALSE, forker |-> 0, err |-> <<"WrongCreator", alert.sender>>]
        ELSE IF u1.round # u2.round
        THEN [ok |-> FALSE, forker |-> 0, err |-> <<"DifferentRounds", alert.sender>>]
        ELSE [ok |-> TRUE, forker |-> u1.creator, err |-> <<>>]

\* rmc_alert that registers the RMC and forgets to store the alert
rmc_alert_forgets_alert(rmcs, alerts, forker, signed) ==
    LET hash == AlertHash(signed.alert) IN
    [rmcs |-> MapInsert(rmcs, <<signed.alert.sender, forker>>, hash),
     alerts |-> alerts,
     hash |-> hash]

\* Handler::rmc_alert: the maps after registering the RMC, and the hash
rmc_alert(rmcs, alerts, forker, signed) ==
    LET hash == AlertHash(signed.alert) IN
    [rmcs |-> MapInsert(rmcs, <<signed.alert.sender, forker>>, hash),
     alerts |-> MapInsert(alerts, hash, signed),
     hash |-> hash]

\* the Handler state with the result of a call
HState(forkers, alerts, rmcs, ret) ==
    [forkers |-> forkers, alerts |-> alerts, rmcs |-> rmcs, ret |-> ret]

\* on_own_alert that does not mark the forker
on_own_alert_does_not_mark(alert) ==
    LET forker == AlertForker(alert)
        signed == SignAlert(alert, keychain)
        reg == rmc_alert(known_rmcs, known_alerts, forker, signed)
    IN  HState(known_forkers, reg.alerts, reg.rmcs,
               HOk("on_own_alert", alert, <<"ForkAlert", signed, "Everyone", reg.hash>>))

\* Handler::on_own_alert
on_own_alert(alert) ==
    LET forker == AlertForker(alert)
        signed == SignAlert(alert, keychain)
        reg == rmc_alert(known_rmcs, known_alerts, forker, signed)
    IN  HState(MapInsert(known_forkers, forker, alert.proof), reg.alerts, reg.rmcs,
               HOk("on_own_alert", alert, <<"ForkAlert", signed, "Everyone", reg.hash>>))

\* the repeated alert replaces the RMC of its pair
repeated_alert_repins(ua, sender, forker) ==
    HState(known_forkers,
           MapInsert(known_alerts, AlertHash(ua.alert), ua),
           MapInsert(known_rmcs, <<sender, forker>>, AlertHash(ua.alert)),
           HErr("on_network_alert", ua, <<"RepeatedAlert", sender, forker>>))

\* the repeated alert is rejected without being stored
repeated_alert_discards(ua, sender, forker) ==
    HState(known_forkers, known_alerts, known_rmcs,
           HErr("on_network_alert", ua, <<"RepeatedAlert", sender, forker>>))

\* Handler::on_network_alert, an RMC of (sender, forker) exists: store and reject
repeated_alert(ua, sender, forker) ==
    HState(known_forkers,
           MapInsert(known_alerts, AlertHash(ua.alert), ua),
           known_rmcs,
           HErr("on_network_alert", ua, <<"RepeatedAlert", sender, forker>>))

\* on_network_alert that registers the alert without verifying its proof
on_network_alert_unverified(ua) ==
    IF ~CheckAlert(ua)
    THEN HState(known_forkers, known_alerts, known_rmcs,
                HErr("on_network_alert", ua, <<"IncorrectlySignedAlert">>))
    ELSE
    LET contents == ua.alert
        forker == AlertForker(contents)
        sender == contents.sender
    IN  IF <<contents.sender, forker>> \in DOMAIN known_rmcs
        THEN repeated_alert(ua, sender, forker)
        ELSE
        LET known == is_forker(known_forkers, forker)
            forkers == IF known THEN known_forkers
                       ELSE MapInsert(known_forkers, forker, contents.proof)
            propagate == IF known THEN <<"None">>
                         ELSE <<"Forker", contents.proof>>
            reg == rmc_alert(known_rmcs, known_alerts, forker, ua)
        IN  HState(forkers, reg.alerts, reg.rmcs,
                   HOk("on_network_alert", ua, <<propagate, reg.hash>>))

\* Handler::on_network_alert
on_network_alert(ua) ==
    IF ~CheckAlert(ua)
    THEN HState(known_forkers, known_alerts, known_rmcs,
                HErr("on_network_alert", ua, <<"IncorrectlySignedAlert">>))
    ELSE
    LET contents == ua.alert
        vf == verify_fork(contents)
    IN  IF ~vf.ok
        THEN HState(known_forkers, known_alerts, known_rmcs,
                    HErr("on_network_alert", ua, vf.err))
        ELSE
        LET forker == vf.forker
            sender == contents.sender
        IN  IF <<contents.sender, forker>> \in DOMAIN known_rmcs
            THEN repeated_alert(ua, sender, forker)
            ELSE
            LET known == is_forker(known_forkers, forker)
                forkers == IF known THEN known_forkers
                           ELSE MapInsert(known_forkers, forker, contents.proof)
                propagate == IF known THEN <<"None">>
                             ELSE <<"Forker", contents.proof>>
                reg == rmc_alert(known_rmcs, known_alerts, forker, ua)
            IN  HState(forkers, reg.alerts, reg.rmcs,
                       HOk("on_network_alert", ua, <<propagate, reg.hash>>))

\* the re-pinned RMC replaces the whole map
repin_rmc_clears(rmcs, alert) ==
    [k \in {<<alert.sender, alert.proof[1].creator>>} |-> AlertHash(alert)]

\* the RMC of the pair is left as it was
repin_rmc_skipped(rmcs, alert) == rmcs

\* Handler::alert_confirmed: known_rmcs with the alert's pair pinned to its hash
repin_rmc(rmcs, alert) ==
    MapInsert(rmcs, <<alert.sender, alert.proof[1].creator>>, AlertHash(alert))

\* the hash pinned for the pair of an alert, if any
PinnedFor(rmcs, alert) ==
    IF <<alert.sender, alert.proof[1].creator>> \in DOMAIN rmcs
    THEN rmcs[<<alert.sender, alert.proof[1].creator>>]
    ELSE <<>>

\* alert_confirmed that takes an unknown alert for one without units
alert_confirmed_unknown_is_empty(hash) ==
    IF hash \notin DOMAIN known_alerts
    THEN HState(known_forkers, known_alerts, known_rmcs,
                HOk("alert_confirmed", hash, <<"Units", <<>> >>))
    ELSE
    LET alert == known_alerts[hash].alert
        rmcs == repin_rmc(known_rmcs, alert)
        prev == PinnedFor(known_rmcs, alert)
        vc == verify_commitment(alert)
    IN  IF ~vc.ok
        THEN HState(known_forkers, known_alerts, rmcs,
                    [HErr("alert_confirmed", hash, vc.err) EXCEPT !.prev = prev])
        ELSE HState(known_forkers, known_alerts, rmcs,
                    [HOk("alert_confirmed", hash, <<"Units", alert.legit_units>>)
                        EXCEPT !.prev = prev])

\* Handler::alert_confirmed
alert_confirmed(hash) ==
    IF hash \notin DOMAIN known_alerts
    THEN HState(known_forkers, known_alerts, known_rmcs,
                HErr("alert_confirmed", hash, <<"UnknownAlertRMC">>))
    ELSE
    LET alert == known_alerts[hash].alert
        rmcs == repin_rmc(known_rmcs, alert)
        prev == PinnedFor(known_rmcs, alert)
        vc == verify_commitment(alert)
    IN  IF ~vc.ok
        THEN HState(known_forkers, known_alerts, rmcs,
                    [HErr("alert_confirmed", hash, vc.err) EXCEPT !.prev = prev])
        ELSE HState(known_forkers, known_alerts, rmcs,
                    [HOk("alert_confirmed", hash, <<"Units", alert.legit_units>>)
                        EXCEPT !.prev = prev])

\* the quorum threshold T = floor(2N/3) + 1
QuorumT == (NMembers * 2) \div 3 + 1

\* the number of signatures of an rmc::Message: one, or those of a multisignature
\* short of the quorum or reaching it
RmcSignatures(kind) ==
    IF kind = "SignedHash" THEN {1}
    ELSE {QuorumT - 1, QuorumT}

\* the rmc::Message values about hash h: SignedHash and MultisignedHash
RmcMessagesOf(h) ==
    UNION { { [hash |-> h, kind |-> k, signatures |-> s] : s \in RmcSignatures(k) } :
            k \in {"SignedHash", "MultisignedHash"} }

\* is_complete that counts the signatures of the multisignature
is_complete_counts_signatures(message) ==
    message.kind = "MultisignedHash" /\ message.signatures >= QuorumT

\* rmc::Message::is_complete: the message is a MultisignedHash; the Handler
\* receives it unchecked, whatever the number of signatures it carries
is_complete(message) == message.kind = "MultisignedHash"

\* forwarding that requires the RMC of the pair to point at the hash
forward_rmc_only_current(rmcs, alert_id, message) ==
    alert_id \in DOMAIN rmcs /\ rmcs[alert_id] = message.hash

\* Handler::on_message, RmcMessage about a known alert: forward it to the RMC?
forward_rmc(rmcs, alert_id, message) ==
    (alert_id \in DOMAIN rmcs /\ rmcs[alert_id] = message.hash) \/ is_complete(message)

\* the request for the alert goes to every node
request_alert_from_everyone(hash, sender) == <<"AlertRequest", hash, <<"Everyone">> >>

\* Handler::on_message, RmcMessage about an unknown alert: ask its sender
request_alert(hash, sender) == <<"AlertRequest", hash, <<"Node", sender>> >>

\* Handler::on_message
on_message(message) ==
    IF message[1] = "ForkAlert"
    THEN LET st == on_network_alert(message[2]) IN
         HState(st.forkers, st.alerts, st.rmcs,
                IF st.ret.ok
                THEN HOk("on_message", message,
                         <<"Some", <<"ForkResponse", st.ret.out[1], st.ret.out[2]>> >>)
                ELSE HErr("on_message", message, st.ret.err))
    ELSE IF message[1] = "RmcMessage"
    THEN LET sender == message[2]
             hash == message[3].hash
         IN  HState(known_forkers, known_alerts, known_rmcs,
                IF hash \in DOMAIN known_alerts
                THEN LET alert == known_alerts[hash].alert
                         alert_id == <<alert.sender, AlertForker(alert)>>
                     IN  IF forward_rmc(known_rmcs, alert_id, message[3])
                         THEN HOk("on_message", message,
                                  <<"Some", <<"RmcMessage", message[3]>> >>)
                         ELSE HOk("on_message", message, <<"None">>)
                ELSE HOk("on_message", message, <<"Some", request_alert(hash, sender)>>))
    ELSE LET node == message[2]
             hash == message[3]
         IN  HState(known_forkers, known_alerts, known_rmcs,
                IF hash \in DOMAIN known_alerts
                THEN HOk("on_message", message,
                         <<"Some", <<"ForkAlert", known_alerts[hash], <<"Node", node>> >> >>)
                ELSE HErr("on_message", message, <<"UnknownAlertRequest">>))

\* the hashes a peer or the RMC may name: the stored ones and the probes
HashInputs == DOMAIN known_alerts \cup ProbeHashes

\* the messages that arrive from the network
Messages ==
    { <<"ForkAlert", ua>> : ua \in NetworkAlerts }
    \cup { <<"RmcMessage", n, m>> :
             n \in Accusers, m \in UNION { RmcMessagesOf(h) : h \in HashInputs } }
    \cup { <<"AlertRequest", n, h>> : n \in Accusers, h \in HashInputs }

\* Handler::new
HandlerInit ==
    /\ session_id = SessionId
    /\ keychain = OwnIndex
    /\ known_forkers = EmptyMap
    /\ known_alerts = EmptyMap
    /\ known_rmcs = EmptyMap
    /\ hret = NoHCall
    /\ own_alerted = {}

\* a call of the Handler: the state it leaves and the value it returns
HandlerCall(st) ==
    /\ hret = NoHCall
    /\ Cardinality(DOMAIN st.alerts) <= MaxAlerts
    /\ known_forkers' = st.forkers
    /\ known_alerts' = st.alerts
    /\ known_rmcs' = st.rmcs
    /\ hret' = st.ret
    /\ UNCHANGED <<session_id, keychain, creator_vars, runway_vars, service_vars>>

OnOwnAlert ==
    \E alert \in OwnAlerts :
        /\ HandlerCall(on_own_alert(alert))
        /\ own_alerted' = own_alerted \cup {AlertHash(alert)}

OnNetworkAlert ==
    \E ua \in NetworkAlerts :
        /\ HandlerCall(on_network_alert(ua))
        /\ UNCHANGED own_alerted

OnMessage ==
    \E message \in Messages :
        /\ HandlerCall(on_message(message))
        /\ UNCHANGED own_alerted

AlertConfirmed ==
    \E hash \in HashInputs :
        /\ HandlerCall(alert_confirmed(hash))
        /\ UNCHANGED own_alerted

\* the units a fork proof may hold: of two creators, two rounds, each
\* variant, of this session or another, signed by the creator or by another key
ProofUnits ==
    { [creator |-> c, round |-> r, variant |-> v, session |-> s, signer |-> k] :
        c \in {TopForker, OtherNode(TopForker)}, r \in 0 .. 1, v \in 0 .. NForkVariants,
        s \in {SessionId, SessionId + 1}, k \in {TopForker, OtherNode(TopForker)} }

\* verify_fork applied to the alert of an accuser with any two units as proof
VerifyFork ==
    \E sender \in Accusers, u1 \in ProofUnits, u2 \in ProofUnits :
        \E alert \in {AlertNew(sender, <<u1, u2>>, <<>>)} :
            /\ hret = NoHCall
            /\ hret' = IF verify_fork(alert).ok
                       THEN HOk("verify_fork", alert, verify_fork(alert).forker)
                       ELSE HErr("verify_fork", alert, verify_fork(alert).err)
            /\ UNCHANGED <<session_id, keychain, known_forkers, known_alerts, known_rmcs,
                           own_alerted, creator_vars, runway_vars, service_vars>>

\* the caller takes the returned value; the Handler is ready for the next call
HandlerReturn ==
    /\ hret # NoHCall
    /\ hret' = NoHCall
    /\ UNCHANGED <<session_id, keychain, known_forkers, known_alerts, known_rmcs,
                   own_alerted, creator_vars, runway_vars, service_vars>>

(***************************************************************************)
(* Units as the Runway receives them                                       *)
(***************************************************************************)
\* the highest round the Validator admits (RunwayConfig::max_round)
RunwayMaxRound == MaxRound + 1

\* the creators whose units reach the Runway: the own node and another one
RunwayCreators == {OwnIndex, TopForker}

\* FullUnit::hash, a collision free digest; the signature is no part of it
UnitHash(u) ==
    1 + u.creator + (NMembers + 1) *
        (u.round + (RunwayMaxRound + 2) * (u.variant + (NForkVariants + 1) * u.session))

\* FullUnit::coord
CoordOf(u) == <<u.round, u.creator>>

\* the creators of the parents of every unit above round 0
ParentSlots == {OwnIndex, TopForker}

\* the parents a unit was created with: none at round 0, above it the first
\* variants of the previous round in the parent slots
UnitParents(u) ==
    [i \in NodeIndex |->
        IF u.round > 0 /\ i \in ParentSlots
        THEN UnitHash(SignedUnit(i, u.round - 1, 0))
        ELSE NoHash]

\* FullUnit::control_hash
ControlHashOf(u) == ControlHashNew(UnitParents(u))

RECURSIVE SortedFrom(_, _)
SortedFrom(set, i) ==
    IF set = {} THEN <<>>
    ELSE IF i \in set THEN <<i>> \o SortedFrom(set \ {i}, i + 1)
    ELSE SortedFrom(set, i + 1)

\* ControlHash::parents(): the creators of the parents, ascending
ControlHashParents(ch) == SortedFrom(ch.parents_mask, 0)

\* FullUnit::unit(): the unit as consensus sees it
UnitOf(u) ==
    [creator |-> u.creator, round |-> u.round, hash |-> UnitHash(u),
     control_hash |-> ControlHashOf(u)]

\* the units that pass validation
RunwayUnits ==
    { SignedUnit(c, r, v) :
        c \in RunwayCreators, r \in 0 .. RunwayMaxRound, v \in 0 .. NForkVariants }

\* units that fail validation, one per check of the Validator
InvalidUnits ==
    { [SignedUnit(TopForker, 0, 0) EXCEPT !.signer = OtherNode(TopForker)],
      [SignedUnit(TopForker, 0, 0) EXCEPT !.session = SessionId + 1],
      SignedUnit(TopForker, RunwayMaxRound + 1, 0),
      SignedUnit(NMembers, 0, 0) }

\* the units the network may deliver
UncheckedUnits == RunwayUnits \cup InvalidUnits

\* Validator::validate_unit
validate_unit(uu) ==
    IF ~CheckUnit(uu) THEN [ok |-> FALSE, err |-> "WrongSignature"]
    ELSE IF uu.session # SessionId THEN [ok |-> FALSE, err |-> "WrongSession"]
    ELSE IF uu.round > RunwayMaxRound THEN [ok |-> FALSE, err |-> "RoundTooHigh"]
    ELSE IF uu.creator >= NMembers THEN [ok |-> FALSE, err |-> "WrongNumberOfMembers"]
    ELSE [ok |-> TRUE, err |-> "None"]

(***************************************************************************)
(* UnitStore                                                               *)
(***************************************************************************)
\* UnitStore::new: the units, those accepted via an alert, the forkers, the
\* parents recorded per unit hash and the buffer of units for consensus
StoreNew ==
    [units |-> {}, via_alert |-> {}, forkers |-> {}, parents |-> EmptyMap,
     buffer |-> <<>>]

\* UnitStore::is_forker
StoreIsForker(st, node) == node \in st.forkers

\* the units stored at a coord
UnitsAt(st, coord) == { u \in st.units : CoordOf(u) = coord }

\* UnitStore::contains_coord
StoreContainsCoord(st, coord) == UnitsAt(st, coord) # {}

\* UnitStore::unit_by_hash: <<>> or the unit in a sequence of one
StoreUnitByHash(st, hash) ==
    IF \E u \in st.units : UnitHash(u) = hash
    THEN <<CHOOSE u \in st.units : UnitHash(u) = hash>>
    ELSE <<>>

\* UnitStore::is_new_fork: <<>> or a different unit stored at the coord of fu
StoreIsNewFork(st, fu) ==
    LET siblings == { u \in UnitsAt(st, CoordOf(fu)) : UnitHash(u) # UnitHash(fu) }
    IN  IF siblings = {} THEN <<>> ELSE <<CHOOSE u \in siblings : TRUE>>

\* a store that inserts every unit it is given
StoreAddUnitAlways(st, su, via_alert) ==
    IF su \in st.units THEN st
    ELSE [st EXCEPT !.units = @ \cup {su},
                    !.via_alert = IF via_alert THEN @ \cup {su} ELSE @,
                    !.buffer = Append(@, su)]

\* UnitStore::add_unit: a unit already stored is ignored; a unit not via an
\* alert is rejected when its coord holds a different unit
StoreAddUnit(st, su, via_alert) ==
    IF su \in st.units THEN st
    ELSE IF ~via_alert /\ StoreContainsCoord(st, CoordOf(su)) THEN st
    ELSE [st EXCEPT !.units = @ \cup {su},
                    !.via_alert = IF via_alert THEN @ \cup {su} ELSE @,
                    !.buffer = Append(@, su)]

RECURSIVE UnitsByRound(_, _)
UnitsByRound(units, r) ==
    IF units = {} THEN <<>>
    ELSE LET now == { u \in units : u.round = r } IN
         IF now = {} THEN UnitsByRound(units, r + 1)
         ELSE LET u == CHOOSE x \in now : \A y \in now : x.variant <= y.variant IN
              <<u>> \o UnitsByRound(units \ {u}, r)

\* UnitStore::mark_forker: the store with the node tagged and its units marked
\* as accepted via an alert, and the units of the node stored so far by round
StoreMarkForker(st, node) ==
    LET mine == { u \in st.units : u.creator = node } IN
    [store |-> [st EXCEPT !.forkers = @ \cup {node}, !.via_alert = @ \cup mine],
     units |-> UnitsByRound(mine, 0)]

\* UnitStore::get_parents: <<>> or the parent hashes in a sequence of one
StoreGetParents(st, hash) ==
    IF hash \in DOMAIN st.parents THEN <<st.parents[hash]>> ELSE <<>>

\* UnitStore::add_parents: the first parents recorded for a hash stay
StoreAddParents(st, hash, hashes) ==
    IF hash \in DOMAIN st.parents THEN st
    ELSE [st EXCEPT !.parents = MapInsert(@, hash, hashes)]

\* UnitStore::yield_buffer_units: the drained store and the units drained
StoreYieldBuffer(st) == [store |-> [st EXCEPT !.buffer = <<>>], units |-> st.buffer]

\* UnitStore::unit_by_coord: <<>> or a unit stored at the coord in a sequence of one
StoreUnitByCoord(st, coord) ==
    IF StoreContainsCoord(st, coord)
    THEN <<CHOOSE u \in UnitsAt(st, coord) :
               \A v \in UnitsAt(st, coord) : u.variant <= v.variant>>
    ELSE <<>>

\* UnitStore::newest_unit: <<>> or a unit of the highest round stored of the
\* requester in a sequence of one
StoreNewestUnit(st, requester) ==
    LET mine == { u \in st.units : u.creator = requester } IN
    IF mine = {} THEN <<>>
    ELSE LET top == { u \in mine : \A v \in mine : v.round <= u.round } IN
         <<CHOOSE u \in top : \A v \in top : u.variant <= v.variant>>

\* the data a unit carries
UnitData(u) == u.variant

(***************************************************************************)
(* Runway                                                                  *)
(***************************************************************************)
\* the outgoing channels: alerts_for_alerter, resolved_requests,
\* unit_messages_for_network and tx_consensus
Channels == {"alerter", "resolved", "network", "consensus"}

\* nothing sent yet on the channels, no send failed, nothing handed to the
\* finalization handler, no step of on_create taken
NoSent ==
    [alerter |-> <<>>, resolved |-> <<>>, network |-> <<>>, consensus |-> <<>>,
     failed |-> {}, finalized |-> <<>>, steps |-> <<>>]

\* the part of the Runway an event handler works on
RwState(st, mc, mp, cl, sv) ==
    [store |-> st, missing_coords |-> mc, missing_parents |-> mp, closed |-> cl,
     saved |-> sv, exiting |-> FALSE, sent |-> NoSent]

\* unbounded_send on a channel: it fails once the receiver is gone
SendFails(rw, chan) == chan \in rw.closed

\* a send whose failure sets exiting
SendOrExit(rw, chan, msg) ==
    IF SendFails(rw, chan)
    THEN [rw EXCEPT !.exiting = TRUE, !.sent.failed = @ \cup {chan}]
    ELSE [rw EXCEPT !.sent[chan] = Append(@, msg)]

\* Runway::send_message_for_network
send_message_for_network(rw, notification) == SendOrExit(rw, "network", notification)

\* Runway::send_resolved_request_notification
send_resolved_request_notification(rw, notification) ==
    SendOrExit(rw, "resolved", notification)

\* Runway::send_consensus_notification
send_consensus_notification(rw, notification) ==
    SendOrExit(rw, "consensus", notification)

\* Runway::index
RunwayIndex == keychain

\* Runway::resolve_missing_coord
resolve_missing_coord(rw, coord) ==
    IF coord \in rw.missing_coords
    THEN send_resolved_request_notification(
             [rw EXCEPT !.missing_coords = @ \ {coord}], <<"Coord", coord>>)
    ELSE rw

\* form_alert that commits to no unit
form_alert_without_units(proof, units) == AlertNew(RunwayIndex, proof, <<>>)

\* Runway::form_alert
form_alert(proof, units) == AlertNew(RunwayIndex, proof, units)

\* on_new_forker_detected that marks the forker and alerts nobody
on_new_forker_detected_silent(rw, forker, proof) ==
    [rw EXCEPT !.store = StoreMarkForker(rw.store, forker).store]

\* Runway::on_new_forker_detected
on_new_forker_detected(rw, forker, proof) ==
    LET marked == StoreMarkForker(rw.store, forker)
        alert == form_alert(proof, marked.units)
    IN  SendOrExit([rw EXCEPT !.store = marked.store], "alerter", alert)

\* a call of store.add_unit(su, false), recorded with whether the store holds
\* another unit at the coord of su or has the creator of su marked
add_unit_not_via_alert(rw, su) ==
    [rw EXCEPT !.store = StoreAddUnit(@, su, FALSE),
               !.sent.steps =
                   Append(@, <<"add_unit", su,
                               \/ StoreIsForker(rw.store, su.creator)
                               \/ UnitsAt(rw.store, CoordOf(su)) \ {su} # {}>>)]

\* add_unit_to_store_unless_fork that lets the units of a forker in
add_unit_to_store_forkers_too(rw, su) ==
    LET sv == StoreIsNewFork(rw.store, su) IN
    IF sv # <<>>
    THEN IF ~StoreIsForker(rw.store, su.creator)
         THEN on_new_forker_detected(rw, su.creator, <<su, sv[1]>>)
         ELSE rw
    ELSE [rw EXCEPT !.store = StoreAddUnit(@, su, FALSE)]

\* add_unit_to_store_unless_fork that takes any unit at the coord for a fork
add_unit_to_store_unless_occupied(rw, su) ==
    IF StoreIsForker(rw.store, su.creator) THEN rw
    ELSE
    LET sv == StoreUnitByCoord(rw.store, CoordOf(su)) IN
    IF sv # <<>>
    THEN on_new_forker_detected(rw, su.creator, <<su, sv[1]>>)
    ELSE [rw EXCEPT !.store = StoreAddUnit(@, su, FALSE)]

\* Runway::add_unit_to_store_unless_fork
add_unit_to_store_unless_fork(rw, su) ==
    IF StoreIsForker(rw.store, su.creator) THEN rw
    ELSE
    LET sv == StoreIsNewFork(rw.store, su) IN
    IF sv # <<>>
    THEN IF ~StoreIsForker(rw.store, su.creator)
         THEN on_new_forker_detected(rw, su.creator, <<su, sv[1]>>)
         ELSE rw
    ELSE add_unit_not_via_alert(rw, su)

\* on_unit_received that checks the units of alerts for forks too
on_unit_received_unless_fork(rw, uu, alert) ==
    IF validate_unit(uu).ok
    THEN add_unit_to_store_unless_fork(resolve_missing_coord(rw, CoordOf(uu)), uu)
    ELSE rw

\* on_unit_received that resolves the coord only of a unit it has stored
on_unit_received_resolves_stored(rw, uu, alert) ==
    IF validate_unit(uu).ok
    THEN LET added == IF alert
                      THEN [rw EXCEPT !.store = StoreAddUnit(@, uu, TRUE)]
                      ELSE add_unit_to_store_unless_fork(rw, uu)
         IN  IF uu \in added.store.units
             THEN resolve_missing_coord(added, CoordOf(uu))
             ELSE added
    ELSE rw

\* Runway::on_unit_received
on_unit_received(rw, uu, alert) ==
    IF validate_unit(uu).ok
    THEN LET resolved == resolve_missing_coord(rw, CoordOf(uu)) IN
         IF alert
         THEN [resolved EXCEPT !.store = StoreAddUnit(@, uu, TRUE)]
         ELSE add_unit_to_store_unless_fork(resolved, uu)
    ELSE rw

\* on_unit_received for each unit of a vector, from the i-th on
RECURSIVE UnitsReceived(_, _, _, _)
UnitsReceived(rw, units, i, alert) ==
    IF i > Len(units) THEN rw
    ELSE UnitsReceived(on_unit_received(rw, units[i], alert), units, i + 1, alert)

\* Runway::on_parents_response, the loop over the parents from the i-th on:
\* the Runway it leaves, whether every parent passed, and the parent hashes
RECURSIVE ParentsLoop(_, _, _, _, _, _)
ParentsLoop(rw, u_round, parent_ids, parents, i, map) ==
    IF i > Len(parents) THEN [rw |-> rw, ok |-> TRUE, map |-> map]
    ELSE LET uu == parents[i] IN
         IF ~validate_unit(uu).ok THEN [rw |-> rw, ok |-> FALSE, map |-> map]
         ELSE IF uu.round + 1 # u_round THEN [rw |-> rw, ok |-> FALSE, map |-> map]
         ELSE IF uu.creator # parent_ids[i] THEN [rw |-> rw, ok |-> FALSE, map |-> map]
         ELSE ParentsLoop(
                 add_unit_to_store_unless_fork(resolve_missing_coord(rw, CoordOf(uu)), uu),
                 u_round, parent_ids, parents, i + 1,
                 [map EXCEPT ![uu.creator] = UnitHash(uu)])

\* the end of on_parents_response without the check of the combined hash
parents_unchecked(loop, su, u_hash) ==
    IF ~loop.ok THEN loop.rw
    ELSE send_consensus_notification(
             [loop.rw EXCEPT !.store = StoreAddParents(@, u_hash, IntoValues(loop.map))],
             <<"UnitParents", u_hash, IntoValues(loop.map)>>)

\* Runway::on_parents_response after its loop: the check of the combined hash
parents_checked(loop, su, u_hash) ==
    IF ~loop.ok THEN loop.rw
    ELSE IF IntoValues(loop.map) # ControlHashOf(su).combined_hash THEN loop.rw
    ELSE send_consensus_notification(
             [loop.rw EXCEPT !.store = StoreAddParents(@, u_hash, IntoValues(loop.map))],
             <<"UnitParents", u_hash, IntoValues(loop.map)>>)

\* Runway::on_parents_response
on_parents_response(rw, u_hash, parents) ==
    IF StoreGetParents(rw.store, u_hash) # <<>> THEN rw
    ELSE IF StoreUnitByHash(rw.store, u_hash) = <<>> THEN rw
    ELSE
    LET su == StoreUnitByHash(rw.store, u_hash)[1]
        parent_ids == ControlHashParents(ControlHashOf(su))
    IN  IF Len(parent_ids) # Len(parents) THEN rw
        ELSE parents_checked(
                 ParentsLoop(rw, su.round, parent_ids, parents, 1,
                             NodeMapWithSize(NMembers)),
                 su, u_hash)

\* Runway::resolve_missing_parents
resolve_missing_parents(rw, u_hash) ==
    IF u_hash \in rw.missing_parents
    THEN send_resolved_request_notification(
             [rw EXCEPT !.missing_parents = @ \ {u_hash}], <<"Parents", u_hash>>)
    ELSE rw

\* save_unit that stops the Runway when the unit saver fails
save_unit_or_exit(rw, uu, ok) ==
    [rw EXCEPT !.saved = IF ok THEN @ \cup {uu} ELSE @,
               !.exiting = @ \/ ~ok,
               !.sent.steps = Append(@, <<"save", uu, ok>>)]

\* Runway::save_unit: ok is whether UnitSaver::save succeeds
save_unit(rw, uu, ok) ==
    [rw EXCEPT !.saved = IF ok THEN @ \cup {uu} ELSE @,
               !.sent.steps = Append(@, <<"save", uu, ok>>)]

\* the call of store.add_unit in on_create
create_add_unit(rw, su) == add_unit_not_via_alert(rw, su)

\* on_create that stores the unit before it saves it
on_create_stores_first(rw, round, data, ok) ==
    LET su == SignedUnit(RunwayIndex, round, data) IN
    save_unit(create_add_unit(rw, su), su, ok)

\* Runway::on_create: the created unit with its data, signed by this node
on_create(rw, round, data, ok) ==
    LET su == SignedUnit(RunwayIndex, round, data) IN
    create_add_unit(save_unit(rw, su, ok), su)

\* AddedToDag that multicasts the unit whoever created it
on_added_to_dag_any_creator(rw, h, p_hashes) ==
    LET added == [rw EXCEPT !.store = StoreAddParents(@, h, p_hashes)]
        resolved == resolve_missing_parents(added, h)
        su == StoreUnitByHash(resolved.store, h)
    IN  IF su # <<>>
        THEN send_message_for_network(resolved, <<"NewUnit", su[1]>>)
        ELSE resolved

\* Runway::on_consensus_notification, AddedToDag
on_added_to_dag(rw, h, p_hashes) ==
    LET added == [rw EXCEPT !.store = StoreAddParents(@, h, p_hashes)]
        resolved == resolve_missing_parents(added, h)
        su == StoreUnitByHash(resolved.store, h)
    IN  IF su # <<>> /\ su[1].creator = RunwayIndex
        THEN send_message_for_network(resolved, <<"NewUnit", su[1]>>)
        ELSE resolved

\* Runway::on_wrong_control_hash
on_wrong_control_hash(rw, u_hash) ==
    LET p_hashes == StoreGetParents(rw.store, u_hash) IN
    IF p_hashes # <<>>
    THEN send_consensus_notification(rw, <<"UnitParents", u_hash, p_hashes[1]>>)
    ELSE LET su == StoreUnitByHash(rw.store, u_hash)
             recipient == IF su # <<>> THEN <<"Node", su[1].creator>>
                                       ELSE <<"Everyone">>
         IN  IF u_hash \notin rw.missing_parents
             THEN send_message_for_network(
                      [rw EXCEPT !.missing_parents = @ \cup {u_hash}],
                      <<"Request", <<"Parents", u_hash>>, recipient>>)
             ELSE rw

\* on_ordered_batch that hands the data over from the last hash to the first
on_ordered_batch_reversed(rw, batch) ==
    [rw EXCEPT !.sent.finalized =
        @ \o [k \in 1 .. Len(batch) |->
                 UnitData(StoreUnitByHash(rw.store, batch[Len(batch) + 1 - k])[1])]]

\* Runway::on_ordered_batch: the data of the units of the batch, handed to the
\* finalization handler one by one
on_ordered_batch(rw, batch) ==
    [rw EXCEPT !.sent.finalized =
        @ \o [k \in 1 .. Len(batch) |->
                 UnitData(StoreUnitByHash(rw.store, batch[k])[1])]]

\* Runway::on_request_coord
on_request_coord(rw, peer, coord) ==
    LET maybe_su == StoreUnitByCoord(rw.store, coord) IN
    IF maybe_su # <<>>
    THEN send_message_for_network(rw, <<"Response", <<"Coord", maybe_su[1]>>, peer>>)
    ELSE rw

\* Runway::on_request_parents
on_request_parents(rw, peer, u_hash) ==
    LET p_hashes == StoreGetParents(rw.store, u_hash) IN
    IF p_hashes = <<>> THEN rw
    ELSE LET hs == p_hashes[1] IN
         IF \E k \in 1 .. Len(hs) : StoreUnitByHash(rw.store, hs[k]) = <<>> THEN rw
         ELSE send_message_for_network(
                  rw,
                  <<"Response",
                    <<"Parents", u_hash,
                      [k \in 1 .. Len(hs) |-> StoreUnitByHash(rw.store, hs[k])[1]]>>,
                    peer>>)

\* Runway::on_request_newest: a failed send is logged and nothing else
on_request_newest(rw, requester, salt) ==
    LET response == [requester |-> requester, responder |-> RunwayIndex,
                     unit |-> StoreNewestUnit(rw.store, requester), salt |-> salt]
    IN  IF SendFails(rw, "network")
        THEN [rw EXCEPT !.sent.failed = @ \cup {"network"}]
        ELSE [rw EXCEPT !.sent.network =
                 Append(@, <<"Response", <<"NewestUnit", response>>, requester>>)]

\* on_alert_notification that leaves the Forker notifications aside
on_alert_notification_skips_forker(rw, notification) ==
    IF notification[1] = "Forker"
    THEN rw
    ELSE UnitsReceived(rw, notification[2], 1, TRUE)

\* on_alert_notification that alerts on every Forker notification
on_alert_notification_always_alerts(rw, notification) ==
    IF notification[1] = "Forker"
    THEN on_new_forker_detected(rw, notification[2][1].creator, notification[2])
    ELSE UnitsReceived(rw, notification[2], 1, TRUE)

\* Runway::on_alert_notification
on_alert_notification(rw, notification) ==
    IF notification[1] = "Forker"
    THEN LET proof == notification[2]
             forker == proof[1].creator
         IN  IF ~StoreIsForker(rw.store, forker)
             THEN on_new_forker_detected(rw, forker, proof)
             ELSE rw
    ELSE UnitsReceived(rw, notification[2], 1, TRUE)

RECURSIVE MissingCoordsFrom(_, _, _)
MissingCoordsFrom(rw, coords, i) ==
    IF i > Len(coords) THEN rw
    ELSE IF StoreContainsCoord(rw.store, coords[i]) \/ coords[i] \in rw.missing_coords
    THEN MissingCoordsFrom(rw, coords, i + 1)
    ELSE MissingCoordsFrom(
             send_message_for_network(
                 [rw EXCEPT !.missing_coords = @ \cup {coords[i]}],
                 <<"Request", <<"Coord", coords[i]>>, <<"Node", coords[i][2]>> >>),
             coords, i + 1)

\* on_missing_coords that forgets which coords it has asked for
on_missing_coords_asks_again(rw, coords) ==
    MissingCoordsFrom([rw EXCEPT !.missing_coords = {}], coords, 1)

\* Runway::on_missing_coords
on_missing_coords(rw, coords) == MissingCoordsFrom(rw, coords, 1)

\* move_units_to_consensus that reads the buffer of the store and leaves it
move_units_keeps_buffer(rw) ==
    send_consensus_notification(
        rw,
        <<"NewUnits", [k \in 1 .. Len(rw.store.buffer) |-> UnitOf(rw.store.buffer[k])]>>)

\* Runway::move_units_to_consensus
move_units_to_consensus(rw) ==
    LET yielded == StoreYieldBuffer(rw.store) IN
    send_consensus_notification(
        [rw EXCEPT !.store = yielded.store],
        <<"NewUnits", [k \in 1 .. Len(yielded.units) |-> UnitOf(yielded.units[k])]>>)

(***************************************************************************)
(* The events of the Runway                                                *)
(***************************************************************************)
\* the parents a peer answers a parents request with
RightParents(u) ==
    LET ids == ControlHashParents(ControlHashOf(u)) IN
    [k \in 1 .. Len(ids) |-> SignedUnit(ids[k], u.round - 1, 0)]

\* answers to a parents request for u: the right one, one with a forked parent,
\* with a parent that fails validation, with a parent of the wrong round, in
\* the wrong order, and one parent short
ParentsAnswers(u) ==
    LET right == RightParents(u)
        n == Len(right)
    IN  {right}
        \cup { [right EXCEPT ![k] = SignedUnit(right[k].creator, u.round - 1, 1)] :
                 k \in 1 .. n }
        \cup { [right EXCEPT ![n] = [right[n] EXCEPT !.session = SessionId + 1]],
               [right EXCEPT ![n] = SignedUnit(right[n].creator, u.round, 0)],
               [k \in 1 .. n |-> right[n + 1 - k]],
               [k \in 1 .. (n - 1) |-> right[k]] }

\* the unit whose parents a peer answers about
ParentsAsked == { SignedUnit(TopForker, 1, 0) }

\* the data of the units this node creates
CreatedData == {0}

\* the units a peer answers a coord request with
CoordAnswers ==
    { SignedUnit(TopForker, 0, v) : v \in 0 .. NForkVariants }
    \cup { [SignedUnit(TopForker, 0, 0) EXCEPT !.session = SessionId + 1] }

\* fork proofs the alerter notifies about
NotifiedProofs ==
    UNION { { <<SignedUnit(f, r, 0), SignedUnit(f, r, 1)>>,
              <<SignedUnit(f, r, 1), SignedUnit(f, r, 0)>> } :
            f \in RunwayCreators, r \in {0} }

\* the commitments to units of the forker f the alerter delivers: units of
\* distinct rounds, validly signed; they need not pass the Validator
NotifiedUnitsOf(f) ==
    { <<SignedUnit(f, 0, v)>> : v \in 0 .. NForkVariants }
    \cup { <<SignedUnit(f, 0, 1), SignedUnit(f, 1, 0)>>,
           <<SignedUnit(f, RunwayMaxRound + 1, 0), SignedUnit(f, 0, 0)>> }

\* the commitments the alerter delivers
NotifiedUnits == UNION { NotifiedUnitsOf(f) : f \in RunwayCreators }

\* what the backup holds: units this node created earlier, by round
BackupUnits ==
    { <<>>, <<SignedUnit(OwnIndex, 0, 0)>>,
      <<SignedUnit(OwnIndex, 0, 0), SignedUnit(OwnIndex, 1, 0)>> }

\* the coords consensus reports missing
MissingCoordsInputs ==
    { <<CoordOf(u)>> : u \in RunwayUnits }
    \cup { <<<<0, TopForker>>, <<0, OwnIndex>>, <<0, TopForker>> >> }

\* a hash no unit has
UnknownHash == 0

\* the units consensus reports on: a unit of this node, a unit of a peer with
\* parents, and the parents consensus has for each
DagUnits == { SignedUnit(OwnIndex, 0, 0), SignedUnit(TopForker, 1, 0) }

\* the parent hashes consensus reports for a unit
DagParents(u) ==
    IF u.round = 0 THEN <<>>
    ELSE [k \in 1 .. Len(RightParents(u)) |-> UnitHash(RightParents(u)[k])]

\* AddedToDag(h, p_hashes) as consensus reports it
AddedToDagInputs ==
    { <<UnitHash(u), DagParents(u)>> : u \in DagUnits } \cup { <<UnknownHash, <<>> >> }

\* the hashes consensus reports a wrong control hash for
WrongControlHashInputs == { UnitHash(SignedUnit(TopForker, 1, 0)), UnknownHash }

\* the units consensus orders
BatchUnits == { SignedUnit(OwnIndex, 0, 0), SignedUnit(TopForker, 0, NForkVariants) }

\* the batches consensus may send: hashes of one or two different units, all of
\* them in the store
OrderedBatches(st) ==
    LET ready == { UnitHash(u) : u \in BatchUnits \cap st.units } IN
    { <<h>> : h \in ready }
    \cup { <<pair[1], pair[2]>> : pair \in { x \in ready \X ready : x[1] # x[2] } }

\* the peer that sends requests
Requester == TopForker

\* no event yet
NoEvent == [op |-> "none", creators |-> {}]

\* the creators of the units of a vector that pass validation
ValidCreators(units) ==
    { units[k].creator : k \in { i \in 1 .. Len(units) : validate_unit(units[i]).ok } }

\* Runway::new
RunwayInit ==
    /\ store = StoreNew
    /\ missing_coords = {}
    /\ missing_parents = {}
    /\ exiting = FALSE
    /\ pc = "select"
    /\ closed = {}
    /\ saved = {}
    /\ backup_pending = TRUE
    /\ sent = NoSent
    /\ revent = NoEvent
    /\ n_events = 0

\* the state an iteration of Runway::run starts in
RwNow == RwState(store, missing_coords, missing_parents, closed, saved)

\* the end of an iteration that tests exiting before it moves the units
end_of_iteration_exits_first(rw) ==
    IF rw.exiting THEN [rw |-> rw, pc |-> "terminate"]
    ELSE LET done == move_units_to_consensus(rw) IN
         [rw |-> done, pc |-> IF done.exiting THEN "terminate" ELSE "select"]

\* the end of an iteration of the loop of Runway::run: the units admitted are
\* moved to consensus, then exiting is tested
end_of_iteration(rw) ==
    LET done == move_units_to_consensus(rw) IN
    [rw |-> done, pc |-> IF done.exiting THEN "terminate" ELSE "select"]

\* one iteration of the loop of Runway::run: the handler of the event has left
\* rw; the units admitted are moved to consensus; the loop goes on unless
\* exiting is set
RunwayEvent(op, units, rw) ==
    /\ pc = "select"
    /\ n_events < MaxEvents
    /\ \E it \in {end_of_iteration(rw)} :
          /\ store' = it.rw.store
          /\ missing_coords' = it.rw.missing_coords
          /\ missing_parents' = it.rw.missing_parents
          /\ saved' = it.rw.saved
          /\ exiting' = it.rw.exiting
          /\ sent' = it.rw.sent
          /\ pc' = it.pc
    /\ revent' = [op |-> op, creators |-> ValidCreators(units)]
    /\ n_events' = n_events + 1
    /\ UNCHANGED <<closed, creator_vars, handler_vars, service_vars>>

\* the unit uu arrives in a NewUnit
NewUnitArrives(uu) ==
    /\ RunwayEvent("NewUnit", <<uu>>, on_unit_received(RwNow, uu, FALSE))
    /\ UNCHANGED backup_pending

\* RunwayNotificationIn::NewUnit
OnNewUnit == \E uu \in UncheckedUnits : NewUnitArrives(uu)

\* the unit uu arrives in a Response::Coord
ResponseCoordArrives(uu) ==
    /\ RunwayEvent("ResponseCoord", <<uu>>, on_unit_received(RwNow, uu, FALSE))
    /\ UNCHANGED backup_pending

\* Response::Coord
OnResponseCoord == \E uu \in CoordAnswers : ResponseCoordArrives(uu)

\* the parents arrive as the answer about the unit u
ResponseParentsArrives(u, parents) ==
    /\ RunwayEvent("ResponseParents", parents,
                   on_parents_response(RwNow, UnitHash(u), parents))
    /\ UNCHANGED backup_pending

\* Response::Parents
OnResponseParents ==
    \E u \in ParentsAsked :
        \E parents \in ParentsAnswers(u) : ResponseParentsArrives(u, parents)

\* Request::Coord
OnRequestCoord ==
    /\ RunwayEvent("RequestCoord", <<>>,
                   on_request_coord(RwNow, Requester, <<0, OwnIndex>>))
    /\ UNCHANGED backup_pending

\* Request::Parents
OnRequestParents ==
    /\ RunwayEvent("RequestParents", <<>>,
                   on_request_parents(RwNow, Requester,
                                      UnitHash(SignedUnit(TopForker, 1, 0))))
    /\ UNCHANGED backup_pending

\* Request::NewestUnit
OnRequestNewest ==
    /\ RunwayEvent("RequestNewest", <<>>, on_request_newest(RwNow, Requester, 0))
    /\ UNCHANGED backup_pending

\* the units loaded from the backup arrive
BackupArrives(units) ==
    /\ backup_pending
    /\ RunwayEvent("Backup", units, UnitsReceived(RwNow, units, 1, FALSE))
    /\ backup_pending' = FALSE

\* the oneshot channel units_from_backup fires, once
OnBackupUnits == \E units \in BackupUnits : BackupArrives(units)

\* consensus has created a unit of the round; the unit saver saves it or fails
CreatedArrives(round, data, ok) ==
    /\ RunwayEvent("CreatedPreUnit", <<SignedUnit(RunwayIndex, round, data)>>,
                   on_create(RwNow, round, data, ok))
    /\ UNCHANGED backup_pending

\* NotificationOut::CreatedPreUnit
OnCreatedPreUnit ==
    \E round \in 0 .. RunwayMaxRound, data \in CreatedData, ok \in BOOLEAN :
        CreatedArrives(round, data, ok)

\* consensus reports the coords missing
MissingUnitsArrives(coords) ==
    /\ RunwayEvent("MissingUnits", <<>>, on_missing_coords(RwNow, coords))
    /\ UNCHANGED backup_pending

\* NotificationOut::MissingUnits
OnMissingUnits == \E coords \in MissingCoordsInputs : MissingUnitsArrives(coords)

\* consensus reports a wrong control hash of the unit of the hash
WrongControlHashArrives(h) ==
    /\ RunwayEvent("WrongControlHash", <<>>, on_wrong_control_hash(RwNow, h))
    /\ UNCHANGED backup_pending

\* NotificationOut::WrongControlHash
OnWrongControlHash == \E h \in WrongControlHashInputs : WrongControlHashArrives(h)

\* consensus reports the unit of the hash added to the DAG
AddedToDagArrives(h, p_hashes) ==
    /\ RunwayEvent("AddedToDag", <<>>, on_added_to_dag(RwNow, h, p_hashes))
    /\ UNCHANGED backup_pending

\* NotificationOut::AddedToDag
OnAddedToDag == \E input \in AddedToDagInputs : AddedToDagArrives(input[1], input[2])

\* consensus sends the batch
OrderedBatchArrives(batch) ==
    /\ RunwayEvent("OrderedBatch", <<>>, on_ordered_batch(RwNow, batch))
    /\ UNCHANGED backup_pending

\* a batch from ordered_batch_rx
OnOrderedBatch == \E batch \in OrderedBatches(store) : OrderedBatchArrives(batch)

\* ForkingNotification::Forker
OnForkerNotification ==
    \E proof \in NotifiedProofs :
        /\ RunwayEvent("Forker", <<proof[1], proof[2]>>,
                       on_alert_notification(RwNow, <<"Forker", proof>>))
        /\ UNCHANGED backup_pending

\* the units arrive in a ForkingNotification::Units
UnitsArrive(units) ==
    /\ RunwayEvent("Units", units, on_alert_notification(RwNow, <<"Units", units>>))
    /\ UNCHANGED backup_pending

\* ForkingNotification::Units: the Handler confirms alerts about forkers it has
\* notified about, or that this node has alerted about, before
OnUnitsNotification ==
    \E f \in RunwayCreators :
        /\ StoreIsForker(store, f)
        /\ \E units \in NotifiedUnitsOf(f) : UnitsArrive(units)

\* the exit signal of the terminator
OnExitSignal ==
    /\ RunwayEvent("Exit", <<>>, [RwNow EXCEPT !.exiting = TRUE])
    /\ UNCHANGED backup_pending

\* the receiver of an outgoing channel goes away between two iterations
CloseChannel ==
    \E chan \in Channels \ closed :
        /\ pc = "select"
        /\ n_events < MaxEvents
        /\ closed' = closed \cup {chan}
        /\ sent' = NoSent
        /\ revent' = [op |-> "Close", creators |-> {}]
        /\ n_events' = n_events + 1
        /\ UNCHANGED <<store, missing_coords, missing_parents, exiting, pc, saved,
                       backup_pending, creator_vars, handler_vars, service_vars>>

\* an input stream of the loop ends: the loop is left at once
InputStreamCloses ==
    /\ pc = "select"
    /\ n_events < MaxEvents
    /\ pc' = "ended"
    /\ sent' = NoSent
    /\ revent' = [op |-> "StreamClosed", creators |-> {}]
    /\ n_events' = n_events + 1
    /\ UNCHANGED <<store, missing_coords, missing_parents, exiting, closed, saved,
                   backup_pending, creator_vars, handler_vars, service_vars>>

\* terminator.terminate_sync() returns and the loop is left
TerminateSync ==
    /\ pc = "terminate"
    /\ pc' = "ended"
    /\ sent' = NoSent
    /\ revent' = [op |-> "Terminated", creators |-> {}]
    /\ UNCHANGED <<store, missing_coords, missing_parents, exiting, closed, saved,
                   backup_pending, n_events, creator_vars, handler_vars, service_vars>>

(***************************************************************************)
(* The Runway and the Handler joined by the alerter service: the service    *)
(* gives the Handler the alerts of the Runway and of the network and the    *)
(* hashes whose RMC completed, and forwards the notifications the Handler   *)
(* returns to the Runway, in the order they were returned                   *)
(***************************************************************************)
\* both channels are created empty
ServiceInit ==
    /\ notifications_from_alerter = <<>>
    /\ alerts_for_alerter = <<>>

\* the units the network delivers while the alerter runs: two variants of the
\* first unit of the top forker
ServiceUnits == { SignedUnit(TopForker, 0, 0), SignedUnit(TopForker, 0, 1) }

\* the creators the alerts accuse while the alerter runs
ServiceForkers == {TopForker, NMembers - NForkers}

\* the alerts the network delivers while the alerter runs: of one accuser,
\* about the top forker with a commitment that is sound, empty or to two
\* units of one round, about the least forker, and one whose proof is no fork
ServiceAlerts ==
    { SignAlert(a, a.sender) :
        a \in { AlertNew(1, FirstProof(TopForker), l) :
                  l \in GoodCommitments(TopForker)
                        \cup { <<SignedUnit(TopForker, 0, 0),
                                 SignedUnit(TopForker, 0, 1)>> } }
              \cup { AlertNew(1, FirstProof(NMembers - NForkers), <<>>),
                     AlertNew(1, <<SignedUnit(TopForker, 0, 0),
                                   SignedUnit(TopForker, 1, 0)>>, <<>>) } }

\* the hashes whose RMC completes: of the alerts stored, and of one never stored
ServiceHashes ==
    DOMAIN known_alerts
        \cup { AlertHash(AlertNew(1, <<SignedUnit(TopForker, 0, 0),
                                       SignedUnit(TopForker, 0, 0)>>, <<>>)) }

\* the notifications the service forwards after a call of the Handler
ForwardedBy(ret) ==
    IF ~ret.ok THEN <<>>
    ELSE IF ret.op = "alert_confirmed" THEN <<ret.out>>
    ELSE IF ret.op = "on_message" /\ ret.out[1] = "Some"
    THEN IF ret.out[2][1] = "ForkResponse" /\ ret.out[2][2][1] = "Forker"
         THEN <<ret.out[2][2]>> ELSE <<>>
    ELSE <<>>

\* a call of the Handler by the service, which takes what the call returns
\* and forwards the notification in it
ServiceCall(call) ==
    \E st \in {call} :
        /\ known_forkers' = st.forkers
        /\ known_alerts' = st.alerts
        /\ known_rmcs' = st.rmcs
        /\ hret' = NoHCall
        /\ notifications_from_alerter' = notifications_from_alerter \o ForwardedBy(st.ret)
        /\ UNCHANGED <<session_id, keychain, creator_vars>>

\* an alert arrives from the network
ServiceNetworkAlert ==
    \E ua \in ServiceAlerts :
        /\ n_events < MaxEvents
        /\ ServiceCall(on_message(<<"ForkAlert", ua>>))
        /\ n_events' = n_events + 1
        /\ UNCHANGED <<own_alerted, alerts_for_alerter, store, missing_coords,
                       missing_parents, exiting, pc, closed, saved, backup_pending,
                       sent, revent>>

\* the service takes the next alert of the Runway
ServiceOwnAlert ==
    /\ alerts_for_alerter # <<>>
    /\ ServiceCall(on_own_alert(Head(alerts_for_alerter)))
    /\ own_alerted' = own_alerted \cup {AlertHash(Head(alerts_for_alerter))}
    /\ alerts_for_alerter' = Tail(alerts_for_alerter)
    /\ UNCHANGED runway_vars

\* the RMC of a hash completes
ServiceAlertConfirmed ==
    \E hash \in ServiceHashes :
        /\ n_events < MaxEvents
        /\ ServiceCall(alert_confirmed(hash))
        /\ n_events' = n_events + 1
        /\ UNCHANGED <<own_alerted, alerts_for_alerter, store, missing_coords,
                       missing_parents, exiting, pc, closed, saved, backup_pending,
                       sent, revent>>

\* one iteration of the loop of Runway::run beside the service: the alerts
\* it sends enter the channel to the alerter
LoopIteration(op, units, rw) ==
    /\ pc = "select"
    /\ \E it \in {end_of_iteration(rw)} :
          /\ store' = it.rw.store
          /\ missing_coords' = it.rw.missing_coords
          /\ missing_parents' = it.rw.missing_parents
          /\ saved' = it.rw.saved
          /\ exiting' = it.rw.exiting
          /\ sent' = it.rw.sent
          /\ pc' = it.pc
          /\ alerts_for_alerter' = alerts_for_alerter \o it.rw.sent.alerter
    /\ revent' = [op |-> op, creators |-> ValidCreators(units)]
    /\ UNCHANGED <<closed, backup_pending, creator_vars, handler_vars>>

\* a unit arrives from the network
LoopNewUnit ==
    \E uu \in ServiceUnits :
        /\ n_events < MaxEvents
        /\ LoopIteration("NewUnit", <<uu>>, on_unit_received(RwNow, uu, FALSE))
        /\ n_events' = n_events + 1
        /\ UNCHANGED notifications_from_alerter

\* the units a notification carries
UnitsIn(notification) ==
    IF notification[1] = "Forker"
    THEN <<notification[2][1], notification[2][2]>>
    ELSE notification[2]

\* the Runway takes the next notification of the alerter
LoopNotification ==
    /\ notifications_from_alerter # <<>>
    /\ LoopIteration(Head(notifications_from_alerter)[1],
                     UnitsIn(Head(notifications_from_alerter)),
                     on_alert_notification(RwNow, Head(notifications_from_alerter)))
    /\ notifications_from_alerter' = Tail(notifications_from_alerter)
    /\ UNCHANGED n_events

AlertsNext ==
    \/ ServiceNetworkAlert \/ ServiceOwnAlert \/ ServiceAlertConfirmed
    \/ LoopNewUnit \/ LoopNotification

vars == <<creator_vars, handler_vars, runway_vars, service_vars>>

Init == CreatorInit /\ HandlerInit /\ RunwayInit /\ ServiceInit

CreatorNext == CreateUnit \/ AddUnit \/ CreatorReturn

SpecCreator == Init /\ [][CreatorNext]_vars

\* the Creator given units of two rounds in any order
SpecCreatorRounds ==
    Init /\ [][CreateUnit \/ CreatorReturn \/ AddEarlierUnit \/ AddLaterUnit]_vars

HandlerNext ==
    OnOwnAlert \/ OnNetworkAlert \/ OnMessage \/ AlertConfirmed \/ HandlerReturn

SpecHandler == Init /\ [][HandlerNext]_vars

\* verify_fork on its own, over every pair of units
SpecVerifyFork == Init /\ [][VerifyFork \/ HandlerReturn]_vars

RunwayNext ==
    \/ OnNewUnit \/ OnResponseCoord \/ OnResponseParents \/ OnBackupUnits
    \/ OnCreatedPreUnit \/ OnMissingUnits \/ OnForkerNotification
    \/ OnUnitsNotification \/ OnRequestCoord \/ OnRequestParents
    \/ OnRequestNewest \/ OnWrongControlHash \/ OnAddedToDag \/ OnOrderedBatch
    \/ OnExitSignal \/ CloseChannel \/ InputStreamCloses \/ TerminateSync

SpecRunway == Init /\ [][RunwayNext]_vars

\* the Runway whose terminator returns once it is asked to
SpecRunwayExit == SpecRunway /\ WF_vars(TerminateSync)

\* the Runway and the alerter with open channels and a running loop: every
\* alert sent and every notification forwarded is taken in the end
SpecAlerts ==
    /\ Init /\ [][AlertsNext]_vars
    /\ WF_vars(ServiceOwnAlert) /\ WF_vars(LoopNotification)

(***************************************************************************)
(* Properties of the Creator                                               *)
(***************************************************************************)
\* the candidate map of a round; empty when the round has no collector yet
CandidatesOf(r) ==
    IF r + 1 <= Len(round_collectors)
    THEN round_collectors[r + 1].candidates
    ELSE [c \in NodeIndex |-> NoHash]

\* the creators with a candidate at round r
KnownCreators(r) == { c \in NodeIndex : CandidatesOf(r)[c] # NoHash }

\* the round r - 1 holds a quorum of candidates, the creator's own among them
CanCreate(r) ==
    /\ Cardinality(KnownCreators(r - 1)) >= QuorumT
    /\ node_id \in KnownCreators(r - 1)

\* the last call was create_unit for a round above 0
CreateCalledAbove0 == cret.op = "create_unit" /\ cret.round > 0

\* the hashes of all candidates of round r, by ascending creator index
AllCandidateHashes(r) ==
    LET occ == KnownCreators(r) IN
    [k \in 1 .. Cardinality(occ) |->
        CandidatesOf(r)[CHOOSE c \in occ : Cardinality({d \in occ : d < c}) = k - 1]]

\* C1: for r > 0, create_unit(r) returns a PreUnit exactly when round r-1 holds
\* candidates of at least T distinct creators and the creator's own unit is
\* one of them; in every other state it returns an error.
C1_CreateOnlyWithQuorumAndOwn ==
    CreateCalledAbove0 => (cret.ok <=> CanCreate(cret.round))

C1_Witness ==
    /\ CreateCalledAbove0 /\ cret.ok
    /\ Cardinality(KnownCreators(cret.round - 1)) = QuorumT

\* C2: create_unit(r) succeeds whenever r = 0 or round r-1 holds a quorum with
\* the own unit; the PreUnit then has creator = own index and round = r, and
\* the parent hashes are the hashes of ALL candidates of round r-1 in ascending
\* NodeIndex order (none for r = 0).
C2_CreateSucceedsWithAllParents ==
    (cret.op = "create_unit" /\ (cret.round = 0 \/ CanCreate(cret.round))) =>
        /\ cret.ok
        /\ cret.out.preunit.creator = node_id
        /\ cret.out.preunit.round = cret.round
        /\ cret.out.parent_hashes =
               IF cret.round = 0 THEN <<>> ELSE AllCandidateHashes(cret.round - 1)

C2_Witness ==
    /\ CreateCalledAbove0 /\ cret.ok
    /\ Len(cret.out.parent_hashes) = NMembers
    /\ NMembers > QuorumT

\* C3: for r > 0, create_unit(r) fails with NotEnoughParents whenever fewer than
\* T candidates are known at round r-1 (own unit missing or not, collector
\* missing or not) and fails with MissingOwnParent exactly when at least T
\* candidates are known and the own slot is empty.
C3_CreateErrors ==
    CreateCalledAbove0 =>
        /\ Cardinality(KnownCreators(cret.round - 1)) < QuorumT =>
               (~cret.ok /\ cret.err = "NotEnoughParents")
        /\ cret.err = "MissingOwnParent" <=>
               /\ Cardinality(KnownCreators(cret.round - 1)) >= QuorumT
               /\ node_id \notin KnownCreators(cret.round - 1)

C3_Witness ==
    /\ CreateCalledAbove0 /\ cret.err = "NotEnoughParents"
    /\ Cardinality(KnownCreators(cret.round - 1)) = QuorumT - 1
    /\ node_id \notin KnownCreators(cret.round - 1)

\* C4: first seen wins: every candidate slot holds the hash of the first unit
\* added for its coord (adding another unit there changes nothing), and
\* n_candidates of every round is the number of its occupied slots.
C4_FirstSeenWins ==
    /\ \A r \in Rounds : \A c \in NodeIndex : CandidatesOf(r)[c] = first_added[r][c]
    /\ \A i \in 1 .. Len(round_collectors) :
           round_collectors[i].n_candidates =
               Cardinality(Occupied(round_collectors[i].candidates))

C4_Witness == cret.op = "add_unit" /\ cret.second

\* C5: create_unit(r) for r > 0 succeeds only after the creator's own unit of
\* round r-1 has been added, so own units are created in increasing rounds.
C5_OwnPredecessorFirst ==
    (CreateCalledAbove0 /\ cret.ok) => first_added[cret.round - 1][node_id] # NoHash

C5_Witness ==
    /\ CreateCalledAbove0 /\ cret.ok
    /\ n_added = MaxAdds

(***************************************************************************)
(* Properties of the Alert Handler                                         *)
(***************************************************************************)
\* the next state is the one a call of on_network_alert returns in, the alert
\* being correctly signed and carrying a fork
ValidNetworkAlertCalled ==
    /\ hret = NoHCall
    /\ hret'.op = "on_network_alert"
    /\ hret'.arg.signer = hret'.arg.alert.sender
    /\ hret'.arg.alert \in ValidAlerts

\* the pair (accuser, accused) of an alert
PairOf(alert) == <<alert.sender, alert.proof[1].creator>>

\* C6: a call of on_network_alert with a correctly signed alert carrying a valid
\* fork proof returns Some(Forker(proof)) if and only if the accused node was
\* not in known_forkers immediately before the call.
C6_ForkerNotifiedIffNew ==
    [][ValidNetworkAlertCalled =>
          ((hret'.ok /\ hret'.out[1] = <<"Forker", hret'.arg.alert.proof>>)
              <=> hret'.arg.alert.proof[1].creator \notin DOMAIN known_forkers)]_vars

C6_Witness ==
    /\ hret.op = "on_network_alert" /\ hret.ok
    /\ hret.out[1] = <<"None">>

C8_OwnAlertRegistered ==
    /\ own_alerted \subseteq DOMAIN known_alerts
    /\ hret.op = "on_own_alert" =>
          /\ hret.out = <<"ForkAlert", [alert |-> hret.arg, signer |-> keychain],
                          "Everyone", AlertHash(hret.arg)>>
          /\ AlertHash(hret.arg) \in own_alerted
          /\ PairOf(hret.arg) \in DOMAIN known_rmcs
          /\ known_rmcs[PairOf(hret.arg)] = AlertHash(hret.arg)
          /\ hret.arg.proof[1].creator \in DOMAIN known_forkers

C8_Witness ==
    /\ own_alerted # {}
    /\ hret.op = "alert_confirmed"
    /\ hret.arg \in own_alerted

\* C9: once known_rmcs[(sender, forker)] is set it stays defined under every
\* handler operation; alert_confirmed may overwrite the hash, nothing clears it.
C9_RmcNeverCleared ==
    [][DOMAIN known_rmcs \subseteq DOMAIN known_rmcs']_vars

C9_Witness ==
    /\ hret.op = "alert_confirmed"
    /\ hret.prev # <<>>
    /\ hret.prev # hret.arg
    /\ known_rmcs[PairOf(known_alerts[hret.arg].alert)] = hret.arg

\* every unit of the commitment is validly signed and created by the alert's
\* forker, and no two units have the same round
WellFormedCommitment(alert) ==
    /\ \A i \in 1 .. Len(alert.legit_units) :
          /\ alert.legit_units[i].signer = alert.legit_units[i].creator
          /\ alert.legit_units[i].creator = alert.proof[1].creator
    /\ \A i, j \in 1 .. Len(alert.legit_units) :
          i # j => alert.legit_units[i].round # alert.legit_units[j].round

AlertConfirmedCalled == hret = NoHCall /\ hret'.op = "alert_confirmed"

\* an alert that the network may deliver and the Handler may record
RecordableAlert == AlertNew(1, FirstProof(TopForker), <<>>)

\* C11: alert_confirmed for a hash that is no key of known_alerts returns
\* Err(UnknownAlertRMC), emits no notification and leaves known_forkers,
\* known_alerts and known_rmcs unchanged; called for the hash of a recorded
\* alert with a well-formed commitment it returns Ok(Units(legit_units)).
C11_UnknownRmcThenUnits ==
    [][AlertConfirmedCalled =>
          /\ hret'.arg \notin DOMAIN known_alerts =>
                /\ ~hret'.ok
                /\ hret'.err = <<"UnknownAlertRMC">>
                /\ hret'.out = <<>>
                /\ UNCHANGED <<known_forkers, known_alerts, known_rmcs>>
          /\ (/\ hret'.arg \in DOMAIN known_alerts
              /\ WellFormedCommitment(known_alerts[hret'.arg].alert)) =>
                /\ hret'.ok
                /\ hret'.out = <<"Units", known_alerts[hret'.arg].alert.legit_units>>]_vars

C11_Witness ==
    /\ hret.op = "alert_confirmed"
    /\ hret.err = <<"UnknownAlertRMC">>
    /\ hret.arg = AlertHash(RecordableAlert)
    /\ DOMAIN known_alerts # {}

\* the next state is the one a call of on_network_alert returns in
NetworkAlertCalled == hret = NoHCall /\ hret'.op = "on_network_alert"

\* what is wrong with a fork proof, as the names of the errors that say so
ProofDefects(proof) ==
    (IF proof[1].signer # proof[1].creator \/ proof[2].signer # proof[2].creator
     THEN {"IncorrectlySignedUnit"} ELSE {})
    \cup (IF proof[1].session # SessionId \/ proof[2].session # SessionId
          THEN {"WrongSession"} ELSE {})
    \cup (IF [proof[1] EXCEPT !.signer = 0] = [proof[2] EXCEPT !.signer = 0]
          THEN {"SingleUnit"} ELSE {})
    \cup (IF proof[1].creator # proof[2].creator THEN {"WrongCreator"} ELSE {})
    \cup (IF proof[1].round # proof[2].round THEN {"DifferentRounds"} ELSE {})

\* the signed alert is not signed by its sender, or its proof is no fork
Unacceptable(ua) == ua.signer # ua.alert.sender \/ ProofDefects(ua.alert.proof) # {}

\* on_network_alert rejected the alert with the error that names its defect,
\* emitted nothing and left the three maps as they were
RejectedUnchanged ==
    /\ ~hret'.ok
    /\ hret'.out = <<>>
    /\ IF hret'.arg.signer # hret'.arg.alert.sender
       THEN hret'.err = <<"IncorrectlySignedAlert">>
       ELSE /\ hret'.err[1] \in ProofDefects(hret'.arg.alert.proof)
            /\ hret'.err[2] = hret'.arg.alert.sender
    /\ UNCHANGED <<known_forkers, known_alerts, known_rmcs>>

\* alert_confirmed and AlertRequest for the hash both fail as unknown
UnknownToHandler(hash) ==
    /\ alert_confirmed(hash).ret.err = <<"UnknownAlertRMC">>
    /\ \A n \in Accusers :
          on_message(<<"AlertRequest", n, hash>>).ret.err = <<"UnknownAlertRequest">>

\* C12 as stated: a network alert that is incorrectly signed or whose fork proof
\* is malformed is rejected with the corresponding error and leaves the handler
\* state unchanged; it is never recorded, so alert_confirmed and AlertRequest
\* for its hash after the rejection yield UnknownAlertRMC and
\* UnknownAlertRequest.
C12_RejectedAlertHashUnknown ==
    [][(NetworkAlertCalled /\ Unacceptable(hret'.arg)) =>
          /\ RejectedUnchanged
          /\ \A h \in {AlertHash(hret'.arg.alert)} : UnknownToHandler(h)']_vars

\* C12, amended: such an alert is rejected with the corresponding error and the
\* handler state is unchanged; no recorded alert is incorrectly signed or has a
\* malformed proof, so for the hash of an alert with a malformed proof
\* alert_confirmed and AlertRequest always fail as unknown; for an incorrectly
\* signed alert they fail as unknown unless an alert of the same content, which
\* has the same hash, is recorded.
C12_RejectedAlertNotRecorded ==
    [][/\ \A h \in DOMAIN known_alerts' : ~Unacceptable(known_alerts'[h])
       /\ \A a \in InvalidAlerts :
             ProofDefects(a.proof) # {} /\ UnknownToHandler(AlertHash(a))'
       /\ (NetworkAlertCalled /\ Unacceptable(hret'.arg)) =>
             /\ RejectedUnchanged
             /\ \A h \in {AlertHash(hret'.arg.alert)} \ DOMAIN known_alerts' :
                   UnknownToHandler(h)']_vars

C12_Witness ==
    /\ hret.op = "on_network_alert"
    /\ hret.err = <<"DifferentRounds", hret.arg.alert.sender>>
    /\ DOMAIN known_rmcs # {}

\* C13: alert_confirmed for a known alert whose commitment is malformed still
\* sets known_rmcs[(alert.sender, alert.forker)] to this alert's hash, returns
\* the commitment error (SameRound, WrongCreator or IncorrectlySignedUnit) and
\* emits no Units notification.
C13_BadCommitmentStillPins ==
    (/\ hret.op = "alert_confirmed"
     /\ hret.arg \in DOMAIN known_alerts
     /\ ~WellFormedCommitment(known_alerts[hret.arg].alert)) =>
        /\ PairOf(known_alerts[hret.arg].alert) \in DOMAIN known_rmcs
        /\ known_rmcs[PairOf(known_alerts[hret.arg].alert)] = hret.arg
        /\ ~hret.ok
        /\ hret.err[1] \in {"SameRound", "WrongCreator", "IncorrectlySignedUnit"}
        /\ hret.err[Len(hret.err)] = known_alerts[hret.arg].alert.sender
        /\ hret.out = <<>>

C13_Witness ==
    /\ hret.op = "alert_confirmed"
    /\ ~hret.ok /\ hret.err[1] = "SameRound"
    /\ hret.prev # <<>>
    /\ hret.prev # hret.arg
    /\ known_rmcs[PairOf(known_alerts[hret.arg].alert)] = hret.arg

\* the next state is the one on_message returns in, answering an RmcMessage
RmcMessageCalled ==
    /\ hret = NoHCall
    /\ hret'.op = "on_message"
    /\ hret'.arg[1] = "RmcMessage"

\* C14: an RmcMessage(sender, msg) whose hash is no key of known_alerts is
\* answered with Ok(Some(AlertRequest(hash, Recipient::Node(sender)))), addressed
\* to the node that sent the RMC message, and leaves the handler state
\* unchanged.
C14_UnknownRmcAsksSender ==
    [][(RmcMessageCalled /\ hret'.arg[3].hash \notin DOMAIN known_alerts) =>
          /\ hret'.ok
          /\ hret'.out = <<"Some", <<"AlertRequest", hret'.arg[3].hash,
                                      <<"Node", hret'.arg[2]>> >> >>
          /\ UNCHANGED <<known_forkers, known_alerts, known_rmcs>>]_vars

C14_Witness ==
    /\ hret.op = "on_message"
    /\ hret.arg[1] = "RmcMessage"
    /\ hret.arg[3].hash = AlertHash(RecordableAlert)
    /\ hret.arg[3].kind = "MultisignedHash"
    /\ hret.ok /\ hret.out[2][1] = "AlertRequest"
    /\ DOMAIN known_alerts # {}

\* on_message has answered an RmcMessage about an alert in known_alerts
KnownRmcMessageAnswered ==
    /\ hret.op = "on_message"
    /\ hret.arg[1] = "RmcMessage"
    /\ hret.arg[3].hash \in DOMAIN known_alerts

\* known_rmcs of the pair of the alert stored under the hash points at the hash
CurrentRmc(hash) ==
    /\ PairOf(known_alerts[hash].alert) \in DOMAIN known_rmcs
    /\ known_rmcs[PairOf(known_alerts[hash].alert)] = hash

\* the answer of on_message is Ok(Some(RmcMessage(msg))) for the message received
Forwarded == hret.ok /\ hret.out = <<"Some", <<"RmcMessage", hret.arg[3]>> >>

\* C15 as stated: an RmcMessage whose hash is a key of known_alerts is forwarded
\* if and only if known_rmcs for the stored alert's (sender, forker) points at
\* this hash or the message carries a complete multisignature, one of at least
\* T signatures; otherwise it is dropped with Ok(None).
C15_ForwardedIffCurrentOrQuorum ==
    KnownRmcMessageAnswered =>
        /\ Forwarded <=>
              \/ CurrentRmc(hret.arg[3].hash)
              \/ /\ hret.arg[3].kind = "MultisignedHash"
                 /\ hret.arg[3].signatures >= QuorumT
        /\ ~Forwarded => (hret.ok /\ hret.out = <<"None">>)

\* C15, amended: an RmcMessage whose hash is a key of known_alerts is forwarded
\* if and only if known_rmcs for the stored alert's (sender, forker) points at
\* this hash or the message is a MultisignedHash, whatever the number of
\* signatures it carries; a SignedHash for a known alert that is not current
\* is dropped with Ok(None).
C15_ForwardedIffCurrentOrMultisigned ==
    KnownRmcMessageAnswered =>
        /\ Forwarded <=>
              \/ CurrentRmc(hret.arg[3].hash)
              \/ hret.arg[3].kind = "MultisignedHash"
        /\ ~Forwarded => (hret.ok /\ hret.out = <<"None">>)

C15_Witness ==
    /\ KnownRmcMessageAnswered
    /\ hret.arg[3].kind = "SignedHash"
    /\ ~CurrentRmc(hret.arg[3].hash)
    /\ hret.out = <<"None">>

\* C16: with a first alert by accuser a about forker f accepted and pinned, and
\* a second, distinct alert by a about f stored (as the rejection with
\* RepeatedAlert stores it), an RmcMessage for the second alert's hash that
\* carries a multisignature of fewer than T signatures is answered with
\* Ok(Some(AlerterResponse::RmcMessage(message))).
C16_IncompleteMultisignedForwarded ==
    (/\ KnownRmcMessageAnswered
     /\ hret.arg[3].kind = "MultisignedHash"
     /\ hret.arg[3].signatures < QuorumT
     /\ PairOf(known_alerts[hret.arg[3].hash].alert) \in DOMAIN known_rmcs
     /\ ~CurrentRmc(hret.arg[3].hash)) =>
        Forwarded

C16_Witness ==
    /\ KnownRmcMessageAnswered
    /\ hret.arg[3].kind = "MultisignedHash"
    /\ hret.arg[3].signatures < QuorumT
    /\ PairOf(known_alerts[hret.arg[3].hash].alert) \in DOMAIN known_rmcs
    /\ known_rmcs[PairOf(known_alerts[hret.arg[3].hash].alert)] \in DOMAIN known_alerts
    /\ ~CurrentRmc(hret.arg[3].hash)
    /\ Forwarded

\* the signed alert is stored in the next state under the hash of its alert
StoredNext(signed) ==
    /\ AlertHash(signed.alert) \in DOMAIN known_alerts'
    /\ known_alerts'[AlertHash(signed.alert)] = signed

\* C17: the handler never discards a signed alert: every alert registered by
\* on_own_alert, accepted by on_network_alert or rejected with RepeatedAlert is
\* stored and stays stored, and every AlertRequest(node, hash) for a stored
\* hash returns ForkAlert(alert, Recipient::Node(node)); an AlertRequest for
\* any other hash fails with UnknownAlertRequest; AlertRequest never changes
\* the handler state.
C17_AlertsKeptAndServed ==
    [][/\ \A h \in DOMAIN known_alerts :
             h \in DOMAIN known_alerts' /\ known_alerts'[h] = known_alerts[h]
       /\ (hret = NoHCall /\ hret'.op = "on_own_alert") =>
             StoredNext([alert |-> hret'.arg, signer |-> keychain])
       /\ (/\ NetworkAlertCalled
           /\ (hret'.ok \/ hret'.err[1] = "RepeatedAlert")) =>
             StoredNext(hret'.arg)
       /\ (/\ hret = NoHCall
           /\ hret'.op = "on_message"
           /\ hret'.arg[1] = "ForkAlert"
           /\ (hret'.ok \/ hret'.err[1] = "RepeatedAlert")) =>
             StoredNext(hret'.arg[2])
       /\ (/\ hret = NoHCall
           /\ hret'.op = "on_message"
           /\ hret'.arg[1] = "AlertRequest") =>
             /\ UNCHANGED <<known_forkers, known_alerts, known_rmcs>>
             /\ IF hret'.arg[3] \in DOMAIN known_alerts
                THEN /\ hret'.ok
                     /\ hret'.out = <<"Some", <<"ForkAlert", known_alerts[hret'.arg[3]],
                                                 <<"Node", hret'.arg[2]>> >> >>
                ELSE /\ ~hret'.ok
                     /\ hret'.err = <<"UnknownAlertRequest">>
                     /\ hret'.out = <<>>]_vars

C17_Witness ==
    /\ hret.op = "on_message"
    /\ hret.arg[1] = "AlertRequest"
    /\ hret.ok
    /\ hret.out[2][1] = "ForkAlert"
    /\ PairOf(hret.out[2][2].alert) \in DOMAIN known_rmcs
    /\ known_rmcs[PairOf(hret.out[2][2].alert)] # hret.arg[3]

(***************************************************************************)
(* Properties of the Runway                                                *)
(***************************************************************************)
\* the units stored at a coord that were not accepted via an alert
NonAlertUnitsAt(coord) == UnitsAt(store, coord) \ store.via_alert

OrdinaryOps == {"NewUnit", "ResponseCoord", "ResponseParents", "Backup"}

\* the units of a creator in a store
UnitsOfCreator(st, creator) == { u \in st.units : u.creator = creator }

\* the elements of a sequence
Elements(seq) == { seq[k] : k \in 1 .. Len(seq) }

\* the alert reports a fork of creator found by this node: a unit against a
\* different stored unit of the same coord, and commits to the units the store
\* held of the creator, each once
OwnAlertAbout(alert, creator, held) ==
    /\ alert.sender = RunwayIndex
    /\ alert.proof[1].creator = creator
    /\ alert.proof[2] \in held
    /\ alert.proof[1] # alert.proof[2]
    /\ CoordOf(alert.proof[1]) = CoordOf(alert.proof[2])
    /\ Elements(alert.legit_units) = held
    /\ Len(alert.legit_units) = Cardinality(held)

\* C19: a valid unit that arrives on a path other than the alerts', at a coord
\* where the store holds a different unit, of a creator not marked forker:
\* the Runway marks the creator forker, sends exactly one Alert, of this node,
\* with the proof (incoming unit, stored unit) and all the units of the
\* creator stored before as legit_units, and does not insert the unit; the
\* alert is sent when the alerter still receives
C19_ForkDetectedAlertsOnce ==
    [][/\ revent'.op \in {"NewUnit", "ResponseCoord"} /\ "alerter" \notin closed
              => \A su \in RunwayUnits :
                     ( /\ su.creator \in revent'.creators
                       /\ ~StoreIsForker(store, su.creator)
                       /\ UnitsAt(store, CoordOf(su)) \ {su} # {}
                       /\ (NewUnitArrives(su) \/ ResponseCoordArrives(su)) )
                     => /\ su.creator \in store'.forkers
                        /\ Len(sent'.alerter) = 1
                        /\ sent'.alerter[1].proof[1] = su
                        /\ OwnAlertAbout(sent'.alerter[1], su.creator,
                                         UnitsOfCreator(store, su.creator))
                        /\ store'.units = store.units
       /\ revent'.op \in OrdinaryOps /\ "alerter" \notin closed
              => /\ Len(sent'.alerter) = Cardinality(store'.forkers \ store.forkers)
                 /\ \A f \in store'.forkers \ store.forkers :
                        \E k \in 1 .. Len(sent'.alerter) :
                            OwnAlertAbout(sent'.alerter[k], f, UnitsOfCreator(store', f))]_vars

\* a NewUnit brought a fork of a stored unit: the creator is marked and the
\* alert of this node commits to the stored unit
C19_Witness ==
    /\ revent.op = "NewUnit"
    /\ Len(sent.alerter) = 1
    /\ sent.alerter[1].sender = RunwayIndex
    /\ sent.alerter[1].legit_units # <<>>
    /\ sent.alerter[1].proof[1] \notin store.units
    /\ sent.alerter[1].proof[2] \in store.units
    /\ sent.alerter[1].proof[1].creator \in store.forkers

\* an ordinary event leaves the units of the forker f as they are and sends no
\* alert about f
ForkerUnitsKeptOut(f) ==
    revent'.op \in OrdinaryOps
        => /\ UnitsOfCreator(store', f) = UnitsOfCreator(store, f)
           /\ \A k \in 1 .. Len(sent'.alerter) : AlertForker(sent'.alerter[k]) # f

\* the step stores a unit of f that was not stored
ForkerUnitEnters(f) == UnitsOfCreator(store', f) \ UnitsOfCreator(store, f) # {}

NothingForConsensus ==
    IF "consensus" \in closed THEN <<>> ELSE << <<"NewUnits", <<>> >> >>

\* the step marks nobody, alerts nobody and leaves the units of the store, and
\* what consensus knows of them, as they are
NothingNewStored ==
    /\ store'.forkers = store.forkers
    /\ store'.units = store.units
    /\ store'.via_alert = store.via_alert
    /\ sent'.alerter = <<>>
    /\ sent'.consensus = NothingForConsensus

\* C21: a valid unit that arrives on a path other than the alerts' and that
\* the store already holds is no fork: nobody is marked forker, no alert is
\* sent and the store holds the unit once, as before
C21_RedeliveryIsNoFork ==
    [][/\ revent'.op \in {"NewUnit", "ResponseCoord"}
              => \A su \in RunwayUnits \cap store.units :
                     ( /\ su.creator \in revent'.creators
                       /\ (NewUnitArrives(su) \/ ResponseCoordArrives(su)) )
                     => NothingNewStored
       /\ revent'.op = "Backup"
              => \A units \in BackupUnits :
                     (Elements(units) \subseteq store.units /\ BackupArrives(units))
                     => NothingNewStored]_vars

\* a valid unit of a creator that is no forker has arrived in a NewUnit and
\* nothing came of it: the store held it
C21_Witness ==
    /\ revent.op = "NewUnit"
    /\ revent.creators # {}
    /\ revent.creators \cap store.forkers = {}
    /\ sent.alerter = <<>>
    /\ sent.consensus = << <<"NewUnits", <<>> >> >>
    /\ \E u \in store.units : u.creator \in revent.creators

HashesOf(units) == [k \in 1 .. Len(units) |-> UnitHash(units[k])]

\* the parents answer the request about u in full: the parents of u are not
\* recorded, the store holds u, there is one unit per parent slot of u, each
\* passes validation, is of the round before u and of the creator of its slot,
\* and their hashes combine to the control hash of u
ParentsAnswerRight(u, parents) ==
    LET ids == ControlHashParents(ControlHashOf(u)) IN
    /\ StoreGetParents(store, UnitHash(u)) = <<>>
    /\ u \in store.units
    /\ Len(parents) = Len(ids)
    /\ \A k \in 1 .. Len(parents) :
           /\ validate_unit(parents[k]).ok
           /\ parents[k].round = u.round - 1
           /\ parents[k].creator = ids[k]
    /\ HashesOf(parents) = ControlHashOf(u).combined_hash

\* the notifications UnitParents sent to consensus in the iteration
UnitParentsSent(s) ==
    { s.consensus[k] : k \in { i \in 1 .. Len(s.consensus) : s.consensus[i][1] = "UnitParents" } }

\* C23: on_parents_response(u, parents) records the parents of u and sends
\* UnitParents(u, hashes) to consensus exactly when the parents of u are not
\* recorded yet, u is stored, there is one unit per parent slot of u, each
\* passes validation, has the round before u and the creator of its slot, and
\* the hashes combine to the control hash of u; otherwise it records nothing
\* and sends no UnitParents
C23_ParentsRecordedIffRight ==
    [][revent'.op = "ResponseParents"
          => \A u \in ParentsAsked : \A parents \in ParentsAnswers(u) :
                 ResponseParentsArrives(u, parents)
                 => IF ParentsAnswerRight(u, parents)
                    THEN /\ StoreGetParents(store', UnitHash(u)) = <<HashesOf(parents)>>
                         /\ HashesOf(parents) = ControlHashOf(u).combined_hash
                         /\ "consensus" \notin closed
                                => UnitParentsSent(sent') =
                                       { <<"UnitParents", UnitHash(u), HashesOf(parents)>> }
                    ELSE /\ store'.parents = store.parents
                         /\ UnitParentsSent(sent') = {}]_vars

\* a parents response was accepted: the parents are recorded and consensus has
\* been told
C23_Witness ==
    /\ revent.op = "ResponseParents"
    /\ \E u \in ParentsAsked :
           /\ StoreGetParents(store, UnitHash(u)) # <<>>
           /\ <<"UnitParents", UnitHash(u), StoreGetParents(store, UnitHash(u))[1]>>
                  \in UnitParentsSent(sent)

\* the request for the unit of a coord, to the creator of the coord
CoordRequest(coord) == <<"Request", <<"Coord", coord>>, <<"Node", coord[2]>> >>

\* the request for the parents of the unit of a hash, to the creator of the
\* unit when the store holds it, else to everyone
ParentsRequest(st, h) ==
    <<"Request", <<"Parents", h>>,
      IF StoreUnitByHash(st, h) # <<>>
      THEN <<"Node", StoreUnitByHash(st, h)[1].creator>>
      ELSE <<"Everyone">> >>

\* how often a sequence holds x
CountOf(seq, x) == Cardinality({ k \in 1 .. Len(seq) : seq[k] = x })

\* the coords of a report that are neither stored nor asked for
CoordsToAsk(coords) ==
    { c \in Elements(coords) : ~StoreContainsCoord(store, c) /\ c \notin missing_coords }

\* MissingUnits(coords) asks once for each coord that is neither stored nor
\* asked for, and for no other
MissingUnitsAsksOnce ==
    revent'.op = "MissingUnits"
        => \A coords \in MissingCoordsInputs :
               MissingUnitsArrives(coords)
               => /\ missing_coords' = missing_coords \cup CoordsToAsk(coords)
                  /\ "network" \notin closed
                         => /\ Elements(sent'.network) =
                                   { CoordRequest(c) : c \in CoordsToAsk(coords) }
                            /\ Len(sent'.network) = Cardinality(CoordsToAsk(coords))

\* WrongControlHash(h) delivers the parents when they are recorded, and
\* otherwise asks for them unless it has asked already
WrongControlHashAsksOnce ==
    revent'.op = "WrongControlHash"
        => \A h \in WrongControlHashInputs :
               WrongControlHashArrives(h)
               => IF StoreGetParents(store, h) # <<>>
                  THEN /\ sent'.network = <<>>
                       /\ missing_parents' = missing_parents
                       /\ "consensus" \notin closed
                              => UnitParentsSent(sent') =
                                     { <<"UnitParents", h, StoreGetParents(store, h)[1]>> }
                  ELSE /\ UnitParentsSent(sent') = {}
                       /\ missing_parents' = missing_parents \cup {h}
                       /\ "network" \notin closed
                              => sent'.network =
                                     IF h \in missing_parents THEN <<>>
                                     ELSE <<ParentsRequest(store, h)>>

\* no step asks for a coord or for parents that it has asked for and that
\* have not been resolved since
NoRequestWhileOutstanding ==
    \A k \in 1 .. Len(sent'.network) :
        sent'.network[k][1] = "Request"
            => IF sent'.network[k][2][1] = "Coord"
               THEN sent'.network[k][2][2] \notin missing_coords
               ELSE sent'.network[k][2][2] \notin missing_parents

\* C24: on MissingUnits(coords) a Coord request goes to the creator of a coord
\* iff the coord is neither stored nor in missing_coords, once however often
\* the coord is reported; on WrongControlHash(h) the recorded parents are
\* delivered to consensus without a request, and otherwise a Parents request
\* goes out only if h is not in missing_parents, to the creator of the unit
\* when it is stored, else to everyone
C24_NoDuplicateRequests ==
    [][/\ MissingUnitsAsksOnce
       /\ WrongControlHashAsksOnce
       /\ NoRequestWhileOutstanding]_vars

\* consensus has reported again a coord that is asked for and not stored: no
\* request was sent
C24_Witness ==
    /\ revent.op = "MissingUnits"
    /\ store.units = {}
    /\ missing_coords # {}
    /\ sent.network = <<>>
    /\ "network" \notin closed

\* the units multicast as NewUnit in an iteration
NewUnitsMulticast(s) ==
    { s.network[k][2] : k \in { j \in 1 .. Len(s.network) : s.network[j][1] = "NewUnit" } }

\* a NewUnit leaves only while AddedToDag is handled, for a stored unit of
\* this node
NewUnitOnlyWhenAdded ==
    \A u \in NewUnitsMulticast(sent') :
        /\ revent'.op = "AddedToDag"
        /\ u \in store.units
        /\ u.creator = RunwayIndex

\* AddedToDag(h, p_hashes) records the parents, resolves the parents request
\* for h if one is outstanding, and multicasts the unit of h iff it is stored
\* and this node created it
AddedToDagHandled ==
    revent'.op = "AddedToDag"
        => \A input \in AddedToDagInputs :
               AddedToDagArrives(input[1], input[2])
               => /\ store'.parents = StoreAddParents(store, input[1], input[2]).parents
                  /\ StoreGetParents(store', input[1]) # <<>>
                  /\ missing_parents' = missing_parents \ {input[1]}
                  /\ "resolved" \notin closed
                         => sent'.resolved =
                                IF input[1] \in missing_parents
                                THEN << <<"Parents", input[1]>> >>
                                ELSE <<>>
                  /\ "network" \notin closed
                         => sent'.network =
                                IF /\ StoreUnitByHash(store, input[1]) # <<>>
                                   /\ StoreUnitByHash(store, input[1])[1].creator = RunwayIndex
                                THEN << <<"NewUnit", StoreUnitByHash(store, input[1])[1]>> >>
                                ELSE <<>>

\* C25: a NewUnit multicast leaves the Runway only while it handles
\* AddedToDag(h, p_hashes) for a unit that is in the store and was created by
\* this node, and the same handling records the parents of h and resolves the
\* parents request for h
C25_MulticastOnlyWhenAdded ==
    [][NewUnitOnlyWhenAdded /\ AddedToDagHandled]_vars

\* AddedToDag for the stored unit of this node has multicast it and recorded
\* its parents
C25_Witness ==
    /\ revent.op = "AddedToDag"
    /\ \E u \in NewUnitsMulticast(sent) :
           /\ u \in store.units
           /\ UnitHash(u) \in DOMAIN store.parents

\* C26: the backup of a unit created by this node is written strictly before
\* the unit enters the store: a created unit that enters the store is in the
\* backup, so that every unit of this node that is later multicast as NewUnit
\* has been recorded
C26_SavedBeforeStored ==
    [][revent'.op = "CreatedPreUnit"
           => \A round \in 0 .. RunwayMaxRound, data \in CreatedData, ok \in BOOLEAN :
                  CreatedArrives(round, data, ok)
                  => \A su \in {SignedUnit(RunwayIndex, round, data)} :
                         su \in store'.units \ store.units => su \in saved']_vars

\* the units handed to consensus in NewUnits notifications of an iteration,
\* in the order sent
RECURSIVE HandedOver(_, _)
HandedOver(consensus, k) ==
    IF k > Len(consensus) THEN <<>>
    ELSE (IF consensus[k][1] = "NewUnits" THEN consensus[k][2] ELSE <<>>)
         \o HandedOver(consensus, k + 1)

\* C27: when the unit saver fails on CreatedPreUnit the Runway does not
\* halt: exiting stays false, and the signed unit is inserted into the store
\* exactly as when the save succeeds and is forwarded to consensus in the
\* same iteration
C27_SaveFailureDoesNotHalt ==
    [][revent'.op = "CreatedPreUnit"
           => \A round \in 0 .. RunwayMaxRound, data \in CreatedData :
                  CreatedArrives(round, data, FALSE)
                  => \A su \in {SignedUnit(RunwayIndex, round, data)} :
                         /\ "consensus" \notin closed => ~exiting'
                         /\ saved' = saved
                         /\ store'.units = StoreAddUnit(store, su, FALSE).units
                         /\ su \in store'.units \ store.units /\ "consensus" \notin closed
                                => CountOf(HandedOver(sent'.consensus, 1), UnitOf(su)) = 1]_vars

\* the save of a created unit has failed, the unit is in the store and has
\* gone to consensus, and the Runway goes on
C27_Witness ==
    /\ revent.op = "CreatedPreUnit"
    /\ \E k \in 1 .. Len(sent.steps) :
           /\ sent.steps[k][1] = "save"
           /\ ~sent.steps[k][3]
           /\ sent.steps[k][2] \in store.units
           /\ sent.steps[k][2] \notin saved
           /\ UnitOf(sent.steps[k][2]) \in Elements(HandedOver(sent.consensus, 1))
    /\ ~exiting

\* the data of the unit a hash names
DataOfHash(h) == UnitData(CHOOSE u \in RunwayUnits : UnitHash(u) = h)

\* C28: the data_finalized calls of an iteration are the data of the units
\* of the ordered batch it received, one call per hash in the order of the
\* hashes, and an iteration that received no batch makes no call; the calls
\* of a run are so the concatenation of the batches in arrival order
C28_FinalizationInOrder ==
    [][/\ revent'.op # "OrderedBatch" => sent'.finalized = <<>>
       /\ revent'.op = "OrderedBatch"
              => \A batch \in OrderedBatches(store) :
                     OrderedBatchArrives(batch)
                     => sent'.finalized =
                            [k \in 1 .. Len(batch) |-> DataOfHash(batch[k])]]_vars

\* a batch of two units was finalized, the larger datum first
C28_Witness ==
    /\ revent.op = "OrderedBatch"
    /\ Len(sent.finalized) = 2
    /\ sent.finalized[1] > sent.finalized[2]

\* the units the step admits to the store
Admitted == store'.units \ store.units

\* C29: while the channel to consensus receives, the units an iteration
\* admits to the store are the units of the NewUnits it sends to consensus,
\* each once; the store never loses a unit, so no unit is handed over in two
\* iterations; and the buffer of the store is empty when the iteration ends
C29_HandedOverOnce ==
    [][/\ store.units \subseteq store'.units
       /\ store'.buffer = <<>>
       /\ "consensus" \notin closed
              => /\ Elements(HandedOver(sent'.consensus, 1)) = { UnitOf(u) : u \in Admitted }
                 /\ Len(HandedOver(sent'.consensus, 1)) = Cardinality(Admitted)]_vars

\* an iteration has admitted two units to a store that held a unit, and has
\* handed exactly the two to consensus
C29_Witness ==
    /\ Len(HandedOver(sent.consensus, 1)) = 2
    /\ Cardinality(store.units) > 2
    /\ store.buffer = <<>>
    /\ "consensus" \notin closed

\* C30: a send of the Runway that fails, to the alerter, to the network (the
\* response to a newest-unit request included), to the resolved requests or
\* to consensus, sets exiting, and the loop handles no event after this one
C30_FailedSendExits ==
    [][sent'.failed # {} => exiting']_vars

\* the iteration that sets exiting, by the exit signal or by a failed send of
\* its handler, is finished: the units it admitted are moved to consensus,
\* and only then the loop turns to the terminator
ExitAfterLastMove ==
    ~exiting /\ exiting'
        => /\ pc' = "terminate"
           /\ store'.buffer = <<>>
           /\ store.units \subseteq store'.units
           /\ "consensus" \notin closed
                  => /\ Elements(HandedOver(sent'.consensus, 1)) =
                            { UnitOf(u) : u \in Admitted }
                     /\ Len(HandedOver(sent'.consensus, 1)) = Cardinality(Admitted)

\* once the loop has left the select, the only step is the return of the
\* terminator, which leaves the loop; no event is handled and nothing is sent
NoEventAfterExit ==
    /\ exiting' => pc' # "select"
    /\ pc # "select"
           => /\ pc = "terminate"
              /\ exiting
              /\ pc' = "ended"
              /\ sent' = NoSent
              /\ UNCHANGED <<store, missing_coords, missing_parents, exiting, saved,
                             n_events>>

\* C31: when the exit signal arrives or exiting is set while an event is
\* handled, the Runway finishes the event, calls move_units_to_consensus one
\* last time, then propagates the terminator and leaves the loop; it handles
\* no event after that, and once exiting is set the run ends
C31_ExitDiscipline ==
    /\ [][ExitAfterLastMove /\ NoEventAfterExit]_vars
    /\ (exiting ~> pc = "ended")

\* a unit has arrived, its handler has set exiting on a failed send, and the
\* unit has still gone to consensus before the loop turned to the terminator
C31_Witness ==
    /\ pc = "terminate"
    /\ exiting
    /\ revent.op = "NewUnit"
    /\ Len(HandedOver(sent.consensus, 1)) = 1

\* the checks of a fork proof in the order claimed, each with its error and
\* whether the proof of the alert fails it
ForkChecks(alert) ==
    LET u1 == alert.proof[1]
        u2 == alert.proof[2]
    IN  << <<"IncorrectlySignedUnit", ~CheckUnit(u1) \/ ~CheckUnit(u2)>>,
           <<"WrongSession", u1.session # session_id \/ u2.session # session_id>>,
           <<"SingleUnit", u1 = u2>>,
           <<"WrongCreator", u1.creator # u2.creator>>,
           <<"DifferentRounds", u1.round # u2.round>> >>

\* the places of the checks the proof of the alert fails
FailedChecks(alert) ==
    { k \in 1 .. Len(ForkChecks(alert)) : ForkChecks(alert)[k][2] }

\* C32: verify_fork returns Ok(creator) iff both units of the proof are
\* validly signed, of the session of the Handler, different as values, of one
\* creator and of one round; otherwise it returns the error of the first
\* check that fails, in the order signature, session, identical units,
\* creators, rounds, with the sender of the alert
C32_VerifyForkFirstFailure ==
    hret.op = "verify_fork"
        => IF FailedChecks(hret.arg) = {}
           THEN hret.ok /\ hret.out = hret.arg.proof[1].creator
           ELSE /\ ~hret.ok
                /\ \E k \in FailedChecks(hret.arg) :
                       /\ \A j \in FailedChecks(hret.arg) : k <= j
                       /\ hret.err = <<ForkChecks(hret.arg)[k][1], hret.arg.sender>>

\* a proof of two validly signed units of this session that differ in creator
\* and in round was refused for the creators
C32_Witness ==
    /\ hret.op = "verify_fork"
    /\ FailedChecks(hret.arg) = {4, 5}
    /\ hret.err = <<"WrongCreator", hret.arg.sender>>

\* the coords of the units of a vector that pass validation
ValidCoords(units) ==
    { CoordOf(units[k]) : k \in { j \in 1 .. Len(units) : validate_unit(units[j]).ok } }

\* the step removes from missing_coords exactly the coords in hit that were
\* in it, and sends one resolved notification for each
ResolvesExactly(hit) ==
    /\ missing_coords' = missing_coords \ hit
    /\ "resolved" \notin closed
           => /\ Len(sent'.resolved) = Cardinality(missing_coords \cap hit)
              /\ Elements(sent'.resolved) = { <<"Coord", c>> : c \in missing_coords \cap hit }

\* the step resolves the missing coord of every valid unit of the vector
ResolvesValid(units) ==
    \A c \in ValidCoords(units) \cap missing_coords :
        /\ c \notin missing_coords'
        /\ "resolved" \notin closed => CountOf(sent'.resolved, <<"Coord", c>>) = 1

\* the parents of an answer that on_parents_response takes up: none when the
\* answer is dropped, else those up to the first that fails validation, has
\* the wrong round or the wrong creator
ParentsTakenUp(st, u, parents) ==
    IF \/ StoreGetParents(st, UnitHash(u)) # <<>>
       \/ u \notin st.units
       \/ Len(ControlHashParents(ControlHashOf(u))) # Len(parents)
    THEN {}
    ELSE { parents[i] : i \in
             { k \in 1 .. Len(parents) :
                 \A j \in 1 .. k :
                     /\ validate_unit(parents[j]).ok
                     /\ parents[j].round + 1 = u.round
                     /\ parents[j].creator = ControlHashParents(ControlHashOf(u))[j] } }

\* a unit that fails validation, arriving alone, changes nothing of the Runway
InvalidChangesNothing(uu) ==
    ~validate_unit(uu).ok
        => /\ UNCHANGED <<store, missing_coords, missing_parents, saved>>
           /\ sent'.resolved = <<>>
           /\ sent'.alerter = <<>>
           /\ sent'.network = <<>>

\* C33 as stated: a unit that passes validation and arrives on any path, a
\* parent inside a Parents response included, has its missing coord resolved
C33_EveryValidUnitResolves ==
    [][/\ revent'.op = "NewUnit"
              => \A uu \in UncheckedUnits : NewUnitArrives(uu) => ResolvesValid(<<uu>>)
       /\ revent'.op = "ResponseCoord"
              => \A uu \in CoordAnswers : ResponseCoordArrives(uu) => ResolvesValid(<<uu>>)
       /\ revent'.op = "Backup"
              => \A units \in BackupUnits : BackupArrives(units) => ResolvesValid(units)
       /\ revent'.op = "Units"
              => \A units \in NotifiedUnits : UnitsArrive(units) => ResolvesValid(units)
       /\ revent'.op = "ResponseParents"
              => \A u \in ParentsAsked : \A parents \in ParentsAnswers(u) :
                     ResponseParentsArrives(u, parents) => ResolvesValid(parents)]_vars

\* C33 (amended): a unit that passes validation and arrives in a NewUnit, a
\* Coord response, the backup or the Units of an alert has its coord, if in
\* missing_coords, removed with one resolved notification Coord(coord),
\* whether or not the unit is then stored; a parent inside a Parents response
\* only if the response is not dropped (parents not yet recorded, unit
\* stored, count right) and the parent and all before it pass validation and
\* have the round and creator the unit declares; nothing else is resolved,
\* and a unit that fails validation resolves nothing and changes nothing
C33_ValidUnitResolves ==
    [][/\ revent'.op = "NewUnit"
              => \A uu \in UncheckedUnits :
                     \/ revent'.creators # {} /\ uu.creator \notin revent'.creators
                     \/ revent'.creators # ValidCreators(<<uu>>)
                     \/ ResolvesExactly(ValidCoords(<<uu>>)) /\ InvalidChangesNothing(uu)
                     \/ ~NewUnitArrives(uu)
       /\ revent'.op = "ResponseCoord"
              => \A uu \in CoordAnswers :
                     \/ revent'.creators # {} /\ uu.creator \notin revent'.creators
                     \/ revent'.creators # ValidCreators(<<uu>>)
                     \/ ResolvesExactly(ValidCoords(<<uu>>)) /\ InvalidChangesNothing(uu)
                     \/ ~ResponseCoordArrives(uu)
       /\ revent'.op = "Backup"
              => \A units \in BackupUnits :
                     \/ revent'.creators # ValidCreators(units)
                     \/ ResolvesExactly(ValidCoords(units))
                     \/ ~BackupArrives(units)
       /\ revent'.op = "Units"
              => \A units \in NotifiedUnits :
                     \/ revent'.creators # ValidCreators(units)
                     \/ ResolvesExactly(ValidCoords(units))
                     \/ ~UnitsArrive(units)
       /\ revent'.op = "ResponseParents"
              => \A u \in ParentsAsked : \A parents \in ParentsAnswers(u) :
                     \/ revent'.creators # ValidCreators(parents)
                     \/ ResolvesExactly(
                            { CoordOf(p) : p \in ParentsTakenUp(store, u, parents) })
                     \/ ~ResponseParentsArrives(u, parents)]_vars

\* the unit of a marked forker has arrived in a NewUnit: its coord was
\* resolved and the unit was not stored
C33_Witness ==
    /\ revent.op = "NewUnit"
    /\ sent.resolved # <<>>
    /\ revent.creators # {}
    /\ revent.creators \subseteq store.forkers
    /\ store.units = {}
    /\ "resolved" \notin closed

\* the calls of store.add_unit(unit, false) of the iteration that the store
\* rejects by contract
RejectedCalls(s) ==
    { k \in 1 .. Len(s.steps) : s.steps[k][1] = "add_unit" /\ s.steps[k][3] }

\* C34: the Runway never calls store.add_unit(unit, false) for a unit whose
\* coord holds a different unit in the store or whose creator is marked
\* forker, whether the unit came from the network, in a Coord or Parents
\* response, from the backup or was created on CreatedPreUnit
C34_NoRejectedAddUnit == RejectedCalls(sent) = {}

\* the calls of the paths that go through add_unit_to_store_unless_fork are
\* never rejected
C34_GuardedPathsOnly == revent.op # "CreatedPreUnit" => RejectedCalls(sent) = {}

\* the forker a returned value notifies about in a ForkingNotification::Forker,
\* from on_network_alert or wrapped by on_message; empty when it has none
NotifiedForker(r) ==
    IF r.op = "on_network_alert" /\ r.ok
    THEN IF r.out[1][1] = "Forker" THEN {r.out[1][2][1].creator} ELSE {}
    ELSE IF r.op = "on_message" /\ r.ok
    THEN IF r.out[1] # "Some" THEN {}
         ELSE IF r.out[2][1] # "ForkResponse" THEN {}
         ELSE IF r.out[2][2][1] = "Forker" THEN {r.out[2][2][2][1].creator} ELSE {}
    ELSE {}

\* the forkers of the alerts given to on_own_alert so far
OwnAlertedForkers == { h[2][1].creator : h \in own_alerted }

\* C35: over any sequence of calls of the Handler, known_forkers only grows;
\* a ForkingNotification::Forker is returned only for a forker that was not in
\* known_forkers before the call and is in it after, so at most once per
\* forker, and never for a forker on_own_alert was called for before
C35_ForkerNotifiedOnce ==
    [][/\ DOMAIN known_forkers \subseteq DOMAIN known_forkers'
       /\ OwnAlertedForkers' \subseteq DOMAIN known_forkers'
       /\ \A f \in NotifiedForker(hret') :
              /\ f \notin DOMAIN known_forkers
              /\ f \in DOMAIN known_forkers'
              /\ f \notin OwnAlertedForkers]_vars

\* after an own alert about a forker, a network alert about the same forker
\* was accepted with no notification
C35_Witness ==
    /\ hret.op = "on_network_alert" /\ hret.ok
    /\ NotifiedForker(hret) = {}
    /\ hret.arg.alert.proof[1].creator \in OwnAlertedForkers

\* the creators the alerts of a sequence accuse
AccusedBy(alerts) == { alerts[k].proof[1].creator : k \in 1 .. Len(alerts) }

\* C36: the forkers marked in the store only grow, and every Alert an iteration
\* of the Runway sends to the alerter is of this node, about a creator that
\* was not marked before the iteration and is marked after it, one alert per
\* creator; so over the run at most one own Alert per forker is sent, whether
\* a unit or a ForkingNotification::Forker reveals the forker first, and a
\* Forker notification about a marked forker changes nothing
C36_OneOwnAlertPerForker ==
    [][/\ store.forkers \subseteq store'.forkers
       /\ Cardinality(AccusedBy(sent'.alerter)) = Len(sent'.alerter)
       /\ \A k \in 1 .. Len(sent'.alerter) :
              /\ sent'.alerter[k].sender = RunwayIndex
              /\ sent'.alerter[k].proof[1].creator \notin store.forkers
              /\ sent'.alerter[k].proof[1].creator \in store'.forkers
       /\ revent'.op = "Forker" /\ revent'.creators \subseteq store.forkers
              => /\ sent'.alerter = <<>>
                 /\ store'.forkers = store.forkers
                 /\ store'.units = store.units]_vars

\* a Forker notification about a creator that is marked already and has a
\* unit in the store: nothing is sent to the open alerter
C36_Witness ==
    /\ revent.op = "Forker"
    /\ revent.creators \subseteq store.forkers
    /\ \E u \in store.units : u.creator \in revent.creators
    /\ "alerter" \notin closed /\ sent.failed = {}
    /\ sent.alerter = <<>>

\* C37: in every state of the Handler, each entry known_rmcs[(s, f)] = h has f
\* in known_forkers and h a key of known_alerts whose alert has sender s and
\* forker f; and every alert stored in known_alerts carries a fork proof
\* that passes verify_fork or was given to on_own_alert
C37_RmcsPointToKnownAlerts ==
    /\ \A p \in DOMAIN known_rmcs :
           /\ p[2] \in DOMAIN known_forkers
           /\ known_rmcs[p] \in DOMAIN known_alerts
           /\ PairOf(known_alerts[known_rmcs[p]].alert) = p
    /\ \A h \in DOMAIN known_alerts :
           \/ verify_fork(known_alerts[h].alert).ok
           \/ h \in own_alerted

\* the RMC of a pair points to one alert while a second alert of the same
\* pair, stored when it was rejected as repeated, is kept beside it
C37_Witness ==
    \E p \in DOMAIN known_rmcs :
        \E h \in DOMAIN known_alerts :
            /\ h # known_rmcs[p]
            /\ PairOf(known_alerts[h].alert) = p
            /\ hret.op = "on_network_alert" /\ ~hret.ok

\* the notifications of a kind in the channel to the Runway
Pending(kind) ==
    { notifications_from_alerter[k] :
        k \in { i \in 1 .. Len(notifications_from_alerter) :
                   notifications_from_alerter[i][1] = kind } }

\* a Forker notification about f waits in the channel and f is not marked
ForkerPendingUnmarked(f) ==
    /\ ~StoreIsForker(store, f)
    /\ \E n \in Pending("Forker") : n[2][1].creator = f

\* the Runway has marked f and alerted about it, and the Handler holds the
\* RMC of this node about f
ForkerTakenUp(f) ==
    /\ StoreIsForker(store, f)
    /\ f \in OwnAlertedForkers
    /\ <<RunwayIndex, f>> \in DOMAIN known_rmcs

\* the unit u waits in a Units notification and passes validation
UnitPending(u) ==
    /\ validate_unit(u).ok
    /\ \E n \in Pending("Units") : u \in Elements(n[2])

\* the units of the commitments that pass verify_commitment, which are the
\* only ones a Units notification carries
CommittedUnits == UNION { Elements(l) : l \in GoodCommitments(TopForker) }

\* C38: with open channels and a loop that goes on taking what waits, a
\* Forker notification forwarded for a creator the Runway has not marked
\* leads to the Runway having marked the creator and sent its own Alert,
\* which the Handler registers as the RMC of (this node, creator); and every
\* unit of a Units notification that passes validation gets into the store
C38_ForkerKnowledgeReachesStore ==
    /\ \A f \in ServiceForkers : ForkerPendingUnmarked(f) ~> ForkerTakenUp(f)
    /\ \A u \in CommittedUnits : UnitPending(u) ~> u \in store.units

\* a forker this node never saw a fork of was notified, marked and alerted
\* about, and a unit of a confirmed alert about it is in the store
C38_Witness ==
    /\ \E f \in ServiceForkers : ForkerTakenUp(f) /\ revent.creators = {f}
    /\ revent.op = "Units"
    /\ store.units # {} /\ store.units = store.via_alert
    /\ \A h \in own_alerted : h[3] = <<>>

\* the Units notification at place k of the channel is about creators that are
\* marked or that a Forker notification earlier in the channel is about
UnitsComeAfterForker(k) ==
    notifications_from_alerter[k][1] = "Units"
        => \A u \in Elements(notifications_from_alerter[k][2]) :
               \/ StoreIsForker(store, u.creator)
               \/ \E j \in 1 .. (k - 1) :
                      /\ notifications_from_alerter[j][1] = "Forker"
                      /\ notifications_from_alerter[j][2][1].creator = u.creator

\* the Runway takes a Units notification from the channel
UnitsTaken ==
    /\ notifications_from_alerter # <<>>
    /\ notifications_from_alerter' = Tail(notifications_from_alerter)
    /\ Head(notifications_from_alerter)[1] = "Units"

\* C39: when the Runway takes a Units notification, the creator of every unit
\* in it is marked forker in the store; in the channel a Units notification
\* about an unmarked creator has a Forker notification about it ahead
C39_UnitsOnlyOfMarkedForkers ==
    /\ [](\A k \in 1 .. Len(notifications_from_alerter) : UnitsComeAfterForker(k))
    /\ [][UnitsTaken => \A u \in Elements(Head(notifications_from_alerter)[2]) :
                             StoreIsForker(store, u.creator)]_vars

\* the Runway found the fork itself, alerted, and took the units of its
\* confirmed alert
C39_Witness ==
    /\ revent.op = "Units" /\ revent.creators # {}
    /\ \E h \in own_alerted : h[3] # <<>>
    /\ notifications_from_alerter = <<>>

\* the highest round of a unit added so far, 0 when none was added
HighestAdded ==
    LET added == { r \in DOMAIN first_added :
                     \E c \in NodeIndex : first_added[r][c] # NoHash }
    IN  IF added = {} THEN 0 ELSE CHOOSE r \in added : \A q \in added : q <= r

\* the fields of the Creator
CreatorState == <<round_collectors, node_id, n_members>>

\* C40: create_unit leaves the Creator as it is and returns what a second call
\* right after it returns; over any step, a round for which create_unit
\* succeeds goes on succeeding and the parent hashes returned for it contain
\* those returned before; current_round never decreases and is the highest
\* round of the units added so far, 0 at the start
C40_CreationMonotone ==
    /\ [](current_round = HighestAdded)
    /\ [][/\ current_round' >= current_round
          /\ cret'.op = "create_unit"
                => /\ CreatorState' = CreatorState
                   /\ \A r \in CreateRounds :
                          cret'.round = r => /\ cret' = CreateUnitResult(r)
                                             /\ cret' = CreateUnitResult(r)'
          /\ \A r \in CreateRounds :
                 CreateUnitResult(r).ok
                     => /\ CreateUnitResult(r)'.ok
                        /\ Elements(CreateUnitResult(r).out.parent_hashes)
                              \subseteq Elements(CreateUnitResult(r)'.out.parent_hashes)]_vars

\* create_unit for round 1 succeeds with a parent of every member, after a
\* unit of the round above MaxRound raised current_round
C40_Witness ==
    /\ cret.op = "create_unit" /\ cret.ok /\ cret.round = 1
    /\ Len(cret.out.parent_hashes) = NMembers
    /\ current_round = MaxRound + 1
    /\ n_added = MaxAdds
====
